---- MODULE Spec2Model ----
(***************************************************************************)
(* Model of the KarpeSlop detector (src/ai-slop-detector.ts): the pattern  *)
(* registry, configuration loading, the per-line scanner with its context  *)
(* filters, the scope heuristics, consolidation and the command-line run.  *)
(* Source text is modelled as TLA+ strings; a line is a string, a file is  *)
(* a path and a sequence of lines.                                         *)
(***************************************************************************)
EXTENDS Integers, Sequences, FiniteSets, TLC

VARIABLES
    pc,                 \* position of runIfMain: new, constructed, detecting, detected, exported, exit
    configFiles,        \* contents of the three configuration candidates on disk
    configReads,        \* loadConfig: the candidates read with readFileSync, in order
    fsFiles,            \* the project's source files, in glob order
    quiet,              \* --quiet
    strict,             \* --strict
    detectionPatterns,  \* AISlopDetector.detectionPatterns (the registry)
    customIgnorePaths,  \* AISlopDetector.customIgnorePaths
    filesToAnalyze,     \* detect(): the files selected for analysis
    fileIdx,            \* detect(): index of the next file to analyze
    issues,             \* AISlopDetector.issues
    score,              \* generateReport: the score breakdowns printed so far, one per detect
    report,             \* the exported ai-slop-report.json, or NoReport
    exitCode,           \* process exit code, or NoExit
    launcher            \* karpeslop.js: the launcher process, if the detector runs as its child

vars == <<pc, configFiles, configReads, fsFiles, quiet, strict, detectionPatterns,
          customIgnorePaths, filesToAnalyze, fileIdx, issues, score, report, exitCode,
          launcher>>

-----------------------------------------------------------------------------
(* String primitives (String.prototype.includes, trim, startsWith, ...).   *)

Min(a, b) == IF a < b THEN a ELSE b
Max(a, b) == IF a > b THEN a ELSE b

\* s[i] for a 0-based index i, "" when out of range
CharAt(s, i) == IF i >= 0 /\ i < Len(s) THEN SubSeq(s, i + 1, i + 1) ELSE ""

\* s.includes(sub)
Includes(s, sub) ==
    \E i \in 1..(Len(s) - Len(sub) + 1) : SubSeq(s, i, i + Len(sub) - 1) = sub

\* s.startsWith(p)
StartsWith(s, p) == Len(p) <= Len(s) /\ SubSeq(s, 1, Len(p)) = p

\* s.endsWith(p)
EndsWith(s, p) == Len(p) <= Len(s) /\ SubSeq(s, Len(s) - Len(p) + 1, Len(s)) = p

WhiteSpace == {" ", "\t"}

\* line.search(/\S/): 0-based index of the first non-blank character, or -1
SearchNonSpace(s) ==
    IF \A i \in 1..Len(s) : SubSeq(s, i, i) \in WhiteSpace
    THEN -1
    ELSE (CHOOSE i \in 1..Len(s) :
              /\ SubSeq(s, i, i) \notin WhiteSpace
              /\ \A j \in 1..(i - 1) : SubSeq(s, j, j) \in WhiteSpace) - 1

\* s.trim()
Trim(s) ==
    IF SearchNonSpace(s) = -1 THEN ""
    ELSE LET first == SearchNonSpace(s) + 1
             last  == CHOOSE i \in 1..Len(s) :
                          /\ SubSeq(s, i, i) \notin WhiteSpace
                          /\ \A j \in (i + 1)..Len(s) : SubSeq(s, j, j) \in WhiteSpace
         IN  SubSeq(s, first, last)

LowerLetters == <<"a","b","c","d","e","f","g","h","i","j","k","l","m",
                  "n","o","p","q","r","s","t","u","v","w","x","y","z">>
UpperLetters == <<"A","B","C","D","E","F","G","H","I","J","K","L","M",
                  "N","O","P","Q","R","S","T","U","V","W","X","Y","Z">>
Digits == {"0","1","2","3","4","5","6","7","8","9"}

Range(f) == {f[i] : i \in DOMAIN f}

LowerOf == [c \in Range(UpperLetters) |->
               LowerLetters[CHOOSE k \in 1..26 : UpperLetters[k] = c]]
UpperOf == [c \in Range(LowerLetters) |->
               UpperLetters[CHOOSE k \in 1..26 : LowerLetters[k] = c]]

\* one character, lower-cased and upper-cased
LowerChar(c) == IF c \in DOMAIN LowerOf THEN LowerOf[c] ELSE c
UpperChar(c) == IF c \in DOMAIN UpperOf THEN UpperOf[c] ELSE c

RECURSIVE LowerRange(_, _, _)
\* the characters lo..hi of s, lower-cased
LowerRange(s, lo, hi) ==
    IF lo > hi THEN ""
    ELSE IF lo = hi THEN LowerChar(SubSeq(s, lo, lo))
    ELSE LET mid == (lo + hi) \div 2
         IN  LowerRange(s, lo, mid) \o LowerRange(s, mid + 1, hi)

\* s.toLowerCase()
ToLowerCase(s) == LowerRange(s, 1, Len(s))

RECURSIVE FlattenRange(_, _, _)
\* the concatenation of the sequences seqs[lo], ..., seqs[hi]
FlattenRange(seqs, lo, hi) ==
    IF lo > hi THEN <<>>
    ELSE IF lo = hi THEN seqs[lo]
    ELSE LET mid == (lo + hi) \div 2
         IN  FlattenRange(seqs, lo, mid) \o FlattenRange(seqs, mid + 1, hi)

Flatten(seqs) == FlattenRange(seqs, 1, Len(seqs))

\* the characters matched by \w
WordChars == Range(LowerLetters) \cup Range(UpperLetters) \cup Digits \cup {"_"}

-----------------------------------------------------------------------------
(* Regular expressions.  A pattern is a syntax tree; Match computes the    *)
(* positions where a backtracking matcher can end, in the order in which   *)
(* the backtracking search of RegExp.prototype.exec tries them, so the     *)
(* head of the result is the match exec returns.  A matcher state is the   *)
(* position p (number of characters consumed) and the text c captured by   *)
(* group 1 (the only group a built-in pattern refers back to).             *)

Inf == -1

Ch(cs)    == [t |-> "ch", neg |-> FALSE, cs |-> cs]      \* [abc]
NotCh(cs) == [t |-> "ch", neg |-> TRUE, cs |-> cs]       \* [^abc]
AnyCh     == NotCh({})                                   \* . and [\s\S]
Cat(rs)   == [t |-> "seq", rs |-> rs]
Alt(rs)   == [t |-> "alt", rs |-> rs]                    \* a|b
Rep(r, lo, hi)     == [t |-> "rep", r |-> r, lo |-> lo, hi |-> hi, greedy |-> TRUE]
LazyRep(r, lo, hi) == [t |-> "rep", r |-> r, lo |-> lo, hi |-> hi, greedy |-> FALSE]
Star(r)   == Rep(r, 0, Inf)                              \* r*
Plus(r)   == Rep(r, 1, Inf)                              \* r+
Opt(r)    == Rep(r, 0, 1)                                \* r?
WB        == [t |-> "wb"]                                \* \b
Cap(r)    == [t |-> "cap", r |-> r]                      \* (r) as group 1
BRef      == [t |-> "bref"]                              \* \1
Str(s)    == Cat([i \in 1..Len(s) |-> Ch({SubSeq(s, i, i)})])
S         == Ch(WhiteSpace)                              \* \s
W         == Ch(WordChars)                               \* \w
D         == Ch(Digits)                                  \* \d
Quote     == Ch({"'", "\""})                             \* ['"]

\* does character c belong to the class r; under the i flag (ci) a letter
\* belongs to it when either of its two cases does
CharIn(c, r, ci) ==
    LET hit == IF ci THEN LowerChar(c) \in r.cs \/ UpperChar(c) \in r.cs
                     ELSE c \in r.cs
    IN  IF r.neg THEN ~hit ELSE hit

IsWordAt(s, i) == CharAt(s, i) \in WordChars

RECURSIVE Match(_, _, _, _)
RECURSIVE MatchSeq(_, _, _, _, _)
RECURSIVE MatchAlt(_, _, _, _, _)
RECURSIVE MatchRep(_, _, _, _, _)
RECURSIVE MatchRepAll(_, _, _, _, _)

\* the states after matching r from every state of sts, in priority order
MatchAll(r, s, sts, ci) == Flatten([k \in 1..Len(sts) |-> Match(r, s, sts[k], ci)])

MatchSeq(rs, k, s, sts, ci) ==
    IF k > Len(rs) \/ sts = <<>> THEN sts
    ELSE MatchSeq(rs, k + 1, s, MatchAll(rs[k], s, sts, ci), ci)

MatchAlt(rs, k, s, st, ci) ==
    IF k > Len(rs) THEN <<>>
    ELSE Match(rs[k], s, st, ci) \o MatchAlt(rs, k + 1, s, st, ci)

\* the length of the longest run of characters of class r from position p,
\* at most hi characters when hi is not Inf
RunLength(r, s, p, hi, ci) ==
    LET most == IF hi = Inf THEN Len(s) - p ELSE Min(hi, Len(s) - p)
        stops == {k \in 0..(most - 1) : ~CharIn(CharAt(s, p + k), r, ci)}
    IN  IF stops = {} THEN most
        ELSE CHOOSE k \in stops : \A j \in stops : k <= j

\* r has already matched n times before state st.  A repeated character
\* class is matched in one step: every shorter run is an alternative, the
\* longest first when greedy.
MatchRep(r, n, s, st, ci) ==
    IF r.r.t = "ch" /\ n = 0
    THEN LET Runs(run) ==
                 IF run < r.lo THEN <<>>
                 ELSE [k \in 1..(run - r.lo + 1) |->
                          [st EXCEPT !.p = st.p + (IF r.greedy THEN run - (k - 1)
                                                    ELSE r.lo + (k - 1))]]
         IN  Runs(RunLength(r.r, s, st.p, r.hi, ci))
    ELSE
    LET Ordered(more, stop) == IF r.greedy THEN more \o stop ELSE stop \o more
    IN  Ordered(IF r.hi = Inf \/ n < r.hi
                THEN MatchRepAll(r, n + 1, s,
                         SelectSeq(Match(r.r, s, st, ci), LAMBDA x : x.p > st.p), ci)
                ELSE <<>>,
                IF n >= r.lo THEN <<st>> ELSE <<>>)

MatchRepAll(r, n, s, sts, ci) ==
    Flatten([k \in 1..Len(sts) |-> MatchRep(r, n, s, sts[k], ci)])

Match(r, s, st, ci) ==
    CASE r.t = "ch" ->
            IF st.p < Len(s) /\ CharIn(CharAt(s, st.p), r, ci)
            THEN <<[st EXCEPT !.p = st.p + 1]>> ELSE <<>>
      [] r.t = "seq" -> MatchSeq(r.rs, 1, s, <<st>>, ci)
      [] r.t = "alt" -> MatchAlt(r.rs, 1, s, st, ci)
      [] r.t = "rep" -> MatchRep(r, 0, s, st, ci)
      [] r.t = "wb"  ->
            IF IsWordAt(s, st.p - 1) # IsWordAt(s, st.p) THEN <<st>> ELSE <<>>
      [] r.t = "cap" ->
            LET Captured(ends) ==
                    [k \in 1..Len(ends) |->
                        [p |-> ends[k].p, c |-> SubSeq(s, st.p + 1, ends[k].p)]]
            IN  Captured(Match(r.r, s, st, ci))
      [] r.t = "bref" ->
            LET n   == Len(st.c)
                got == SubSeq(s, st.p + 1, Min(Len(s), st.p + n))
            IN  IF st.p + n <= Len(s)
                   /\ (IF ci THEN ToLowerCase(got) = ToLowerCase(st.c) ELSE got = st.c)
                THEN <<[st EXCEPT !.p = st.p + n]>> ELSE <<>>

NoMatch == [index |-> -1, code |-> "", end |-> -1]

\* regex.exec(line) with regex.lastIndex = lastIndex: the leftmost match at
\* or after lastIndex (index is 0-based, end becomes the new lastIndex)
Exec(re, line, lastIndex) ==
    LET EndsAt(i) == Match(re.ast, line, [p |-> i, c |-> ""], re.ci)
        Result(i, ends) ==
            [index |-> i, code |-> SubSeq(line, i + 1, ends[1].p), end |-> ends[1].p]
        At(i) == Result(i, EndsAt(i))
        Leftmost(starts) ==
            IF starts = {} THEN NoMatch
            ELSE At(CHOOSE i \in starts : \A j \in starts : i <= j)
    IN  Leftmost({i \in lastIndex..Len(line) : EndsAt(i) # <<>>})

RECURSIVE ExecLoop(_, _, _)
\* the matches visited by `while ((match = regex.exec(line)) !== null)`
\* from lastIndex on.  exec leaves lastIndex at the end of the match, so after
\* a match of length 0 the next call finds the same match again and the loop
\* never ends: the list stops at such a match, which Spins recognises.
ExecLoop(re, line, lastIndex) ==
    LET Visit(m) ==
            IF m = NoMatch THEN <<>>
            ELSE IF m.end = m.index THEN <<m>>
            ELSE <<m>> \o ExecLoop(re, line, m.end)
    IN  Visit(Exec(re, line, lastIndex))

ExecAll(re, line) == ExecLoop(re, line, 0)

\* the exec loop that visited ms visits its last match for ever
Spins(ms) == ms # <<>> /\ ms[Len(ms)].end = ms[Len(ms)].index

-----------------------------------------------------------------------------
(* The built-in registry (detectionPatterns), in declaration order.  Every *)
(* built-in pattern has the g flag; ci is the i flag.  fix and learnMore   *)
(* are report text only and are left out.                                  *)

Words(ws) == Alt([i \in 1..Len(ws) |-> Str(ws[i])])
OptS      == Star(S)                                     \* \s*
Upper     == Ch(Range(UpperLetters))                     \* [A-Z]

\* a RegExp object: its source text and flags (analyzeFile recompiles it per line)
RegExp(source, flags) == [source |-> source, flags |-> flags]

Rule(id, pattern, message, severity, description, skipTests, skipMocks) ==
    [id |-> id, pattern |-> pattern, message |-> message, severity |-> severity,
     description |-> description, skipTests |-> skipTests, skipMocks |-> skipMocks]

\* /const\s+(\w+)\s*=\s*\1\s*;?\s*\/\/.?(?:set|assign|store)\s+\1\b/gi
RedundantCommentRe ==
    [source |-> "const\\s+(\\w+)\\s*=\\s*\\1\\s*;?\\s*\\/\\/.?(?:set|assign|store)\\s+\\1\\b",
     ast |->
        Cat(<<Str("const"), Plus(S), Cap(Plus(W)), OptS, Str("="), OptS, BRef, OptS,
                 Opt(Str(";")), OptS, Str("//"), Opt(AnyCh),
                 Words(<<"set", "assign", "store">>), Plus(S), BRef, WB>>)]

\* /\/\/\s*This (?:function|component|hook|variable|method).* (?:does|is|handles?|returns?|takes?|processes?)/gi
BoilerplateCommentRe ==
    [source |-> "\\/\\/\\s*This (?:function|component|hook|variable|method).* (?:does|is|handles?|returns?|takes?|processes?)",
     ast |->
        Cat(<<Str("//"), OptS, Str("This "),
                 Words(<<"function", "component", "hook", "variable", "method">>),
                 Star(AnyCh), Str(" "),
                 Alt(<<Str("does"), Str("is"),
                       Cat(<<Str("handle"), Opt(Str("s"))>>),
                       Cat(<<Str("return"), Opt(Str("s"))>>),
                       Cat(<<Str("take"), Opt(Str("s"))>>),
                       Cat(<<Str("processe"), Opt(Str("s"))>>)>>)>>)]

\* /console\.(log|debug|info)\([^)]+\)\s*;\s*\/\/\s*(?:debug|temp|test|check|log|print)/gi
DebugLogRe ==
    [source |-> "console\\.(log|debug|info)\\([^)]+\\)\\s*;\\s*\\/\\/\\s*(?:debug|temp|test|check|log|print)",
     ast |->
        Cat(<<Str("console."), Words(<<"log", "debug", "info">>), Str("("),
                 Plus(NotCh({")"})), Str(")"), OptS, Str(";"), OptS, Str("//"), OptS,
                 Words(<<"debug", "temp", "test", "check", "log", "print">>)>>)]

\* /import\s*{\s*(useRouter|useParams|useSearchParams|Link|Image|Script)\s*}\s*from\s*['"]react['"]/gi
HallucinatedReactRe ==
    [source |-> "import\\s*{\\s*(useRouter|useParams|useSearchParams|Link|Image|Script)\\s*}\\s*from\\s*['\\\"]react['\\\"]",
     ast |->
        Cat(<<Str("import"), OptS, Str("{"), OptS,
                 Words(<<"useRouter", "useParams", "useSearchParams", "Link", "Image", "Script">>),
                 OptS, Str("}"), OptS, Str("from"), OptS, Quote, Str("react"), Quote>>)]

\* /import\s*{\s*(getServerSideProps|getStaticProps|getStaticPaths)\s*}\s*from\s*['"]react['"]/gi
HallucinatedNextRe ==
    [source |-> "import\\s*{\\s*(getServerSideProps|getStaticProps|getStaticPaths)\\s*}\\s*from\\s*['\\\"]react['\\\"]",
     ast |->
        Cat(<<Str("import"), OptS, Str("{"), OptS,
                 Words(<<"getServerSideProps", "getStaticProps", "getStaticPaths">>),
                 OptS, Str("}"), OptS, Str("from"), OptS, Quote, Str("react"), Quote>>)]

\* /\/\/\s*(?:TODO|FIXME|HACK).*(?:implement|add|finish|complete|your code|logic|here)/gi
TodoPlaceholderRe ==
    [source |-> "\\/\\/\\s*(?:TODO|FIXME|HACK).*(?:implement|add|finish|complete|your code|logic|here)",
     ast |->
        Cat(<<Str("//"), OptS, Words(<<"TODO", "FIXME", "HACK">>), Star(AnyCh),
                 Words(<<"implement", "add", "finish", "complete", "your code", "logic", "here">>)>>)]

\* /\b(assuming|assumes?|presumably|apparently|it seems|seems like)\b.{0,50}\b(that|this|the|it)\b/gi
AssumptionRe ==
    [source |-> "\\b(assuming|assumes?|presumably|apparently|it seems|seems like)\\b.{0,50}\\b(that|this|the|it)\\b",
     ast |->
        Cat(<<WB, Alt(<<Str("assuming"), Cat(<<Str("assume"), Opt(Str("s"))>>),
                           Str("presumably"), Str("apparently"), Str("it seems"),
                           Str("seems like")>>),
                 WB, Rep(AnyCh, 0, 50), WB, Words(<<"that", "this", "the", "it">>), WB>>)]

\* /\/\/\s*(obviously|clearly|simply|just|easy|trivial|basically|literally|of course|naturally|certainly|surely)\b/gi
OverconfidentRe ==
    [source |-> "\\/\\/\\s*(obviously|clearly|simply|just|easy|trivial|basically|literally|of course|naturally|certainly|surely)\\b",
     ast |->
        Cat(<<Str("//"), OptS,
                 Words(<<"obviously", "clearly", "simply", "just", "easy", "trivial",
                         "basically", "literally", "of course", "naturally", "certainly",
                         "surely">>), WB>>)]

\* /\/\/.*\b(should work|hopefully|probably|might work|try this|i think|seems to|attempting to|looks like|appears to)\b/gi
HedgingRe ==
    [source |-> "\\/\\/.*\\b(should work|hopefully|probably|might work|try this|i think|seems to|attempting to|looks like|appears to)\\b",
     ast |->
        Cat(<<Str("//"), Star(AnyCh), WB,
                 Words(<<"should work", "hopefully", "probably", "might work", "try this",
                         "i think", "seems to", "attempting to", "looks like", "appears to">>),
                 WB>>)]

\* /\bconst\s+\w+\s*=\s*\(\s*async\s*\(\)\s*=>\s*\{[\s\S]*?\}\)\(\)/g
IifeRe ==
    [source |-> "\\bconst\\s+\\w+\\s*=\\s*\\(\\s*async\\s*\\(\\)\\s*=>\\s*\\{[\\s\\S]*?\\}\\)\\(\\)",
     ast |->
        Cat(<<WB, Str("const"), Plus(S), Plus(W), OptS, Str("="), OptS, Str("("), OptS,
                 Str("async"), OptS, Str("()"), OptS, Str("=>"), OptS, Str("{"),
                 LazyRep(AnyCh, 0, Inf), Str("})()")>>)]

\* ['"][^'"]+['"]
QuotedText == Cat(<<Quote, Plus(NotCh({"'", "\""})), Quote>>)

\* /\?\s*['"][^'"]+['"]\s*:\s*['"][^'"]+['"]\s*\?\s*['"][^'"]+['"]\s*:\s*['"][^'"]+['"]/g
TernaryRe ==
    [source |-> "\\?\\s*['\\\"][^'\\\"]+['\\\"]\\s*:\\s*['\\\"][^'\\\"]+['\\\"]\\s*\\?\\s*['\\\"][^'\\\"]+['\\\"]\\s*:\\s*['\\\"][^'\\\"]+['\\\"]",
     ast |->
        Cat(<<Str("?"), OptS, QuotedText, OptS, Str(":"), OptS, QuotedText, OptS,
                 Str("?"), OptS, QuotedText, OptS, Str(":"), OptS, QuotedText>>)]

\* /\b(\d{3,4}px|#\w{6}|rgba?\([^)]+\)|hsl\(\d+)/g
MagicCssRe ==
    [source |-> "\\b(\\d{3,4}px|#\\w{6}|rgba?\\([^)]+\\)|hsl\\(\\d+)",
     ast |->
        Cat(<<WB, Alt(<<Cat(<<Rep(D, 3, 4), Str("px")>>),
                           Cat(<<Str("#"), Rep(W, 6, 6)>>),
                           Cat(<<Str("rgb"), Opt(Str("a")), Str("("), Plus(NotCh({")"})), Str(")")>>),
                           Cat(<<Str("hsl("), Plus(D)>>)>>)>>)]

\* /useEffect\s*\(\s*\(\s*\)\s*=>\s*\{[^}]*set[A-Z]\w*\([^)]*\)/g
UseEffectDerivedRe ==
    [source |-> "useEffect\\s*\\(\\s*\\(\\s*\\)\\s*=>\\s*\\{[^}]*set[A-Z]\\w*\\([^)]*\\)",
     ast |->
        Cat(<<Str("useEffect"), OptS, Str("("), OptS, Str("("), OptS, Str(")"), OptS,
                 Str("=>"), OptS, Str("{"), Star(NotCh({"}"})), Str("set"), Upper, Star(W),
                 Str("("), Star(NotCh({")"})), Str(")")>>)]

\* /useEffect\s*\([^,]+,\s*\[\s*\]\s*\)/g
UseEffectEmptyDepsRe ==
    [source |-> "useEffect\\s*\\([^,]+,\\s*\\[\\s*\\]\\s*\\)",
     ast |->
        Cat(<<Str("useEffect"), OptS, Str("("), Plus(NotCh({","})), Str(","), OptS,
                 Str("["), OptS, Str("]"), OptS, Str(")")>>)]

\* /(?:for|while|forEach|map)\s*\([^)]+\)[^{]*\{[^}]*set[A-Z]\w*\(/g
SetStateInLoopRe ==
    [source |-> "(?:for|while|forEach|map)\\s*\\([^)]+\\)[^{]*\\{[^}]*set[A-Z]\\w*\\(",
     ast |->
        Cat(<<Words(<<"for", "while", "forEach", "map">>), OptS, Str("("),
                 Plus(NotCh({")"})), Str(")"), Star(NotCh({"{"})), Str("{"),
                 Star(NotCh({"}"})), Str("set"), Upper, Star(W), Str("(")>>)]

\* /useCallback\s*\([^,]+,\s*\[\s*\]\s*\)/g
UseCallbackNoDepsRe ==
    [source |-> "useCallback\\s*\\([^,]+,\\s*\\[\\s*\\]\\s*\\)",
     ast |->
        Cat(<<Str("useCallback"), OptS, Str("("), Plus(NotCh({","})), Str(","), OptS,
                 Str("["), OptS, Str("]"), OptS, Str(")")>>)]

\* /:\s*any\b/g
AnyTypeRe ==
    [source |-> ":\\s*any\\b",
     ast |->
        Cat(<<Str(":"), OptS, Str("any"), WB>>)]

\* /Array\s*<\s*any\s*>/g
ArrayAnyRe ==
    [source |-> "Array\\s*<\\s*any\\s*>",
     ast |->
        Cat(<<Str("Array"), OptS, Str("<"), OptS, Str("any"), OptS, Str(">")>>)]

\* /<\s*any\s*>/g
GenericAnyRe ==
    [source |-> "<\\s*any\\s*>",
     ast |->
        Cat(<<Str("<"), OptS, Str("any"), OptS, Str(">")>>)]

\* /\(\s*.*\s*:\s*any\s*\)/g
FunctionParamAnyRe ==
    [source |-> "\\(\\s*.*\\s*:\\s*any\\s*\\)",
     ast |->
        Cat(<<Str("("), OptS, Star(AnyCh), OptS, Str(":"), OptS, Str("any"), OptS,
                 Str(")")>>)]

\* /\s+as\s+any\b/g
UnsafeAssertionRe ==
    [source |-> "\\s+as\\s+any\\b",
     ast |->
        Cat(<<Plus(S), Str("as"), Plus(S), Str("any"), WB>>)]

\* /as\s+\w+\s+as\s+\w+/g
DoubleAssertionRe ==
    [source |-> "as\\s+\\w+\\s+as\\s+\\w+",
     ast |->
        Cat(<<Str("as"), Plus(S), Plus(W), Plus(S), Str("as"), Plus(S), Plus(W)>>)]

\* /\[\s*["'BQ]?(\w+)["'BQ]?[^\]]*\]\s*:\s*any/g  where BQ is the backquote, which a
\* TLA+ string cannot contain: no modelled line has one, so the class is ['"]
IndexSignatureAnyRe ==
    [source |-> "\\[\\s*[\\\"']?(\\w+)[\\\"']?[^\\]]*\\]\\s*:\\s*any",
     ast |->
        Cat(<<Str("["), OptS, Opt(Quote), Plus(W), Opt(Quote),
                 Star(NotCh({"]"})), Str("]"), OptS, Str(":"), OptS, Str("any")>>)]

\* /(fetch|axios|http)\s*\(/g
MissingErrorHandlingRe ==
    [source |-> "(fetch|axios|http)\\s*\\(",
     ast |->
        Cat(<<Words(<<"fetch", "axios", "http">>), OptS, Str("(")>>)]

\* /console\.(log|warn|error|info|debug|trace)\(/g
ConsoleLogRe ==
    [source |-> "console\\.(log|warn|error|info|debug|trace)\\(",
     ast |->
        Cat(<<Str("console."), Words(<<"log", "warn", "error", "info", "debug", "trace">>),
                 Str("(")>>)]

\* /(TODO|FIXME|HACK|XXX|BUG)\b/g
TodoCommentRe ==
    [source |-> "(TODO|FIXME|HACK|XXX|BUG)\\b",
     ast |->
        Cat(<<Words(<<"TODO", "FIXME", "HACK", "XXX", "BUG">>), WB>>)]

\* /\.\s*any\s*\[/g
UnsafeMemberAccessRe ==
    [source |-> "\\.\\s*any\\s*\\[",
     ast |->
        Cat(<<Str("."), OptS, Str("any"), OptS, Str("[")>>)]

\* the syntax trees of the built-in sources
BuiltinSyntax ==
    (RedundantCommentRe.source :> RedundantCommentRe.ast)
    @@ (BoilerplateCommentRe.source :> BoilerplateCommentRe.ast)
    @@ (DebugLogRe.source :> DebugLogRe.ast)
    @@ (HallucinatedReactRe.source :> HallucinatedReactRe.ast)
    @@ (HallucinatedNextRe.source :> HallucinatedNextRe.ast)
    @@ (TodoPlaceholderRe.source :> TodoPlaceholderRe.ast)
    @@ (AssumptionRe.source :> AssumptionRe.ast)
    @@ (OverconfidentRe.source :> OverconfidentRe.ast)
    @@ (HedgingRe.source :> HedgingRe.ast)
    @@ (IifeRe.source :> IifeRe.ast)
    @@ (TernaryRe.source :> TernaryRe.ast)
    @@ (MagicCssRe.source :> MagicCssRe.ast)
    @@ (UseEffectDerivedRe.source :> UseEffectDerivedRe.ast)
    @@ (UseEffectEmptyDepsRe.source :> UseEffectEmptyDepsRe.ast)
    @@ (SetStateInLoopRe.source :> SetStateInLoopRe.ast)
    @@ (UseCallbackNoDepsRe.source :> UseCallbackNoDepsRe.ast)
    @@ (AnyTypeRe.source :> AnyTypeRe.ast)
    @@ (ArrayAnyRe.source :> ArrayAnyRe.ast)
    @@ (GenericAnyRe.source :> GenericAnyRe.ast)
    @@ (FunctionParamAnyRe.source :> FunctionParamAnyRe.ast)
    @@ (UnsafeAssertionRe.source :> UnsafeAssertionRe.ast)
    @@ (DoubleAssertionRe.source :> DoubleAssertionRe.ast)
    @@ (IndexSignatureAnyRe.source :> IndexSignatureAnyRe.ast)
    @@ (MissingErrorHandlingRe.source :> MissingErrorHandlingRe.ast)
    @@ (ConsoleLogRe.source :> ConsoleLogRe.ast)
    @@ (TodoCommentRe.source :> TodoCommentRe.ast)
    @@ (UnsafeMemberAccessRe.source :> UnsafeMemberAccessRe.ast)

BuiltinPatterns == <<
    Rule("redundant_self_explanatory_comment", RegExp(RedundantCommentRe.source, "gi"),
         "Redundant comment explaining variable assignment to itself - peak AI slop",
         "high", "e.g., const count = count; // assign count to count", FALSE, FALSE),
    Rule("excessive_boilerplate_comment", RegExp(BoilerplateCommentRe.source, "gi"),
         "Boilerplate comment that restates the obvious - adds zero insight",
         "medium", "AI-generated comments that explain the obvious", FALSE, FALSE),
    Rule("debug_log_with_comment", RegExp(DebugLogRe.source, "gi"),
         "Debug log with apologetic comment - AI trying to justify its existence",
         "medium", "Debugging code that should not be in production", TRUE, FALSE),
    Rule("hallucinated_react_import", RegExp(HallucinatedReactRe.source, "gi"),
         "Hallucinated React import - these do NOT exist in 'react'",
         "critical", "React-specific APIs are NOT in the react package", FALSE, FALSE),
    Rule("hallucinated_next_import", RegExp(HallucinatedNextRe.source, "gi"),
         "Next.js API imported from 'react' - 100% AI hallucination",
         "critical", "Next.js APIs are NOT in the react package", FALSE, FALSE),
    Rule("todo_implementation_placeholder", RegExp(TodoPlaceholderRe.source, "gi"),
         "AI gave up and wrote a TODO instead of thinking",
         "high", "Placeholder comments where AI failed to implement", FALSE, FALSE),
    Rule("assumption_comment", RegExp(AssumptionRe.source, "gi"),
         "AI making unverified assumptions - dangerous in production",
         "high", "Comments indicating unverified assumptions", FALSE, FALSE),
    Rule("overconfident_comment", RegExp(OverconfidentRe.source, "gi"),
         "Overconfident comment - AI pretending it understands when it doesn't",
         "high", "Overconfident language indicating false certainty", FALSE, FALSE),
    Rule("hedging_uncertainty_comment", RegExp(HedgingRe.source, "gi"),
         "AI hedging its bets - classic sign of low-confidence generation",
         "high", "Uncertain language masked as implementation", FALSE, FALSE),
    Rule("unnecessary_iife_wrapper", RegExp(IifeRe.source, "g"),
         "Unnecessary IIFE wrapper - AI over-engineering a simple async call",
         "medium", "Unnecessarily complex function wrapping", FALSE, FALSE),
    Rule("vibe_coded_ternary_abuse", RegExp(TernaryRe.source, "g"),
         "Nested ternary hell - AI trying to look clever",
         "medium", "Overly complex nested ternary operations", FALSE, FALSE),
    Rule("magic_css_value", RegExp(MagicCssRe.source, "g"),
         "Magic CSS value - extract to design token or const",
         "low", "Hardcoded CSS values that should be constants", FALSE, FALSE),
    Rule("useEffect_derived_state", RegExp(UseEffectDerivedRe.source, "g"),
         "useEffect setting state from props/other state - consider useMemo or compute in render",
         "high", "Using useEffect to derive state is often unnecessary", FALSE, FALSE),
    Rule("useEffect_empty_deps_suspicious", RegExp(UseEffectEmptyDepsRe.source, "g"),
         "useEffect with empty deps - verify this truly should only run on mount",
         "medium", "Empty dependency arrays are often a sign of missing dependencies",
         FALSE, FALSE),
    Rule("setState_in_loop", RegExp(SetStateInLoopRe.source, "g"),
         "setState inside a loop - may cause multiple re-renders",
         "high", "Calling setState in a loop triggers multiple re-renders", FALSE, FALSE),
    Rule("useCallback_no_deps", RegExp(UseCallbackNoDepsRe.source, "g"),
         "useCallback with empty deps - the callback never updates",
         "medium", "Empty deps means the callback is stale and may use outdated values",
         FALSE, FALSE),
    Rule("any_type_usage", RegExp(AnyTypeRe.source, "g"),
         "Found 'any' type usage. Replace with specific type or unknown.",
         "high", "Detects : any type annotations", FALSE, FALSE),
    Rule("array_any_type", RegExp(ArrayAnyRe.source, "g"),
         "Found Array<any> type usage. Replace with specific type or unknown[].",
         "high", "Detects Array<any> patterns", FALSE, FALSE),
    Rule("generic_any_type", RegExp(GenericAnyRe.source, "g"),
         "Found generic <any> type usage. Replace with specific type or unknown.",
         "high", "Detects generic type parameters with any", FALSE, FALSE),
    Rule("function_param_any_type", RegExp(FunctionParamAnyRe.source, "g"),
         "Found function parameter with 'any' type. Replace with specific type or unknown.",
         "high", "Detects function parameters with any type", FALSE, FALSE),
    Rule("unsafe_type_assertion", RegExp(UnsafeAssertionRe.source, "g"),
         "Found unsafe 'as any' type assertion. Use proper type guards or validation.",
         "high", "Detects unsafe as any assertions", FALSE, FALSE),
    Rule("unsafe_double_type_assertion", RegExp(DoubleAssertionRe.source, "g"),
         "Found unsafe double type assertion. Consider using 'as unknown as Type' for safe conversions.",
         "high", "Detects unsafe double type assertions", FALSE, FALSE),
    Rule("index_signature_any", RegExp(IndexSignatureAnyRe.source, "g"),
         "Found index signature with 'any' type. Replace with specific type or unknown.",
         "high", "Detects index signatures with any type", FALSE, FALSE),
    Rule("missing_error_handling", RegExp(MissingErrorHandlingRe.source, "g"),
         "Potential missing error handling for promise. Consider adding try/catch or .catch().",
         "medium", "Detects calls that might need error handling", TRUE, FALSE),
    Rule("production_console_log", RegExp(ConsoleLogRe.source, "g"),
         "Found console logging in production code. Remove before deployment.",
         "medium", "Detects console logs in production code", TRUE, TRUE),
    Rule("todo_comment", RegExp(TodoCommentRe.source, "g"),
         "Found TODO/FIXME/HACK comment indicating incomplete implementation.",
         "medium", "Detects incomplete implementation markers", FALSE, FALSE),
    Rule("unsafe_member_access", RegExp(UnsafeMemberAccessRe.source, "g"),
         "Found potentially unsafe member access on 'any' type.",
         "high", "Detects unsafe member access patterns", FALSE, FALSE) >>

-----------------------------------------------------------------------------
(* Configuration files.  A candidate file is a record: exists (the file is *)
(* on disk), json ("object", "null" for a JSON value that is not an        *)
(* object, "syntaxError" when JSON.parse throws) and the three parsed      *)
(* fields.  A field a custom pattern lacks is the empty string, which      *)
(* validateConfig treats like a missing one (`!pattern.id`); an absent     *)
(* list is the empty list.  severityOverrides is the entry list of the     *)
(* object, in Object.entries order.                                        *)

ValidSeverities == {"critical", "high", "medium", "low"}

\* the sources of the custom patterns the modelled configurations use
CustomSyntax ==
    ("lodash" :> Str("lodash"))
    @@ ("foo\\(" :> Str("foo("))
    @@ ("\\s*" :> OptS)

\* the syntax tree new RegExp(source, flags) compiles source to
RegExpSyntax == BuiltinSyntax @@ CustomSyntax

\* new RegExp(source, flags) does not throw a SyntaxError
Compiles(source) == source \in DOMAIN RegExpSyntax

\* the error validateConfig throws for customPatterns[i], "" if none
PatternError(cp) ==
    IF cp.id = "" THEN "id must be a string"
    ELSE IF cp.pattern = "" THEN "pattern must be a string"
    ELSE IF cp.message = "" THEN "message must be a string"
    ELSE IF cp.severity \notin ValidSeverities THEN "severity must be one of"
    ELSE IF ~Compiles(cp.pattern) THEN "pattern is not a valid regex"
    ELSE ""

\* a validation that looks at the type of the configuration only
ValidateConfigShallow(raw) ==
    IF raw.json # "object" THEN "Config must be an object" ELSE ""

\* validateConfig(config): the message of the Error thrown, "" if it returns
ValidateConfig(raw) ==
    IF raw.json # "object" THEN "Config must be an object"
    ELSE IF \E i \in 1..Len(raw.customPatterns) : PatternError(raw.customPatterns[i]) # ""
    THEN PatternError(raw.customPatterns[
             CHOOSE i \in 1..Len(raw.customPatterns) :
                 /\ PatternError(raw.customPatterns[i]) # ""
                 /\ \A j \in 1..(i - 1) : PatternError(raw.customPatterns[j]) = ""])
    ELSE IF \E i \in 1..Len(raw.severityOverrides) :
                raw.severityOverrides[i].value \notin ValidSeverities
    THEN "severityOverrides must be one of"
    ELSE ""

\* loadConfig, lines 401-413: the registry entry pushed for a custom pattern
CustomRule(cp) ==
    Rule(cp.id, RegExp(cp.pattern, "gi"), cp.message, cp.severity,
         IF cp.description # "" THEN cp.description ELSE cp.message, FALSE, FALSE)

\* detectionPatterns.find(p => p.id === patternId): its index, 0 if none
FindPattern(patterns, patternId) ==
    IF \E k \in 1..Len(patterns) : patterns[k].id = patternId
    THEN CHOOSE k \in 1..Len(patterns) :
             /\ patterns[k].id = patternId
             /\ \A j \in 1..(k - 1) : patterns[j].id # patternId
    ELSE 0

RECURSIVE ApplyOverrides(_, _)
\* loadConfig, lines 417-425: apply the override entries in order
ApplyOverrides(patterns, entries) ==
    IF entries = <<>> THEN patterns
    ELSE LET k == FindPattern(patterns, Head(entries).key)
         IN  ApplyOverrides(
                 IF k = 0 THEN patterns
                 ELSE [patterns EXCEPT ![k].severity = Head(entries).value],
                 Tail(entries))

RECURSIVE LoadConfig(_, _)
\* loadConfig: the registry and ignore paths after trying the candidates
\* from index k on; loaded is the index of the candidate applied, 0 if none;
\* read lists the candidates passed to readFileSync
LoadConfig(candidates, k) ==
    IF k > Len(candidates)
    THEN [detectionPatterns |-> BuiltinPatterns, customIgnorePaths |-> <<>>, loaded |-> 0,
          read |-> <<>>]
    ELSE LET raw == candidates[k]
             AfterRead(rest) == [rest EXCEPT !.read = <<k>> \o @]
         IN  IF ~raw.exists THEN LoadConfig(candidates, k + 1)
             ELSE IF raw.json = "syntaxError" \/ ValidateConfig(raw) # ""
             THEN AfterRead(LoadConfig(candidates, k + 1))  \* caught, warned, next candidate
             ELSE [detectionPatterns |->
                       ApplyOverrides(
                           BuiltinPatterns \o
                               [i \in 1..Len(raw.customPatterns) |->
                                    CustomRule(raw.customPatterns[i])],
                           raw.severityOverrides),
                   customIgnorePaths |-> raw.ignorePaths,
                   loaded |-> k,
                   read |-> <<k>>]

-----------------------------------------------------------------------------
(* Scope heuristics.  lines is the file's line array; every index is the   *)
(* 0-based index of the code, so the line at index i is lines[i + 1].      *)

FetchWindow == 20        \* lines scanned above and below a fetch call
LocalBefore == 2         \* fallback window: lines before the call
LocalAfter  == 3         \* fallback window: exclusive bound after the call
ChainWindow == 5         \* promise chain: lines scanned from the call on
CatchLookahead == 5      \* isInTryCatchBlock: lines searched for the catch brace

\* isFetchCallProperlyHandled, lines 539-557: line i starts the function
IsFunctionStart(lines, i) ==
    LET line == lines[i + 1]
    IN  \/ /\ \/ Includes(line, "async function")
              \/ Includes(line, "function")
              \/ Includes(line, "=>")
              \/ /\ Includes(line, "const")
                 /\ \/ Includes(line, "useState")
                    \/ Includes(line, "useEffect")
                    \/ Includes(line, "useCallback")
                    \/ Includes(line, "useMemo")
              \/ Includes(line, "export default function")
           /\ (Includes(line, "{") \/ Includes(line, "=>"))
        \/ /\ i > 0
           /\ Includes(lines[i] \o line, "=>")
           /\ StartsWith(Trim(line), "{")

\* the backward loop: the nearest function start at most FetchWindow lines
\* above the call (the call line included), -1 if none
FindFunctionStart(lines, fetchLineIndex) ==
    LET Nearest(found) ==
            IF found = {} THEN -1
            ELSE CHOOSE i \in found : \A j \in found : j <= i
    IN  Nearest({i \in Max(0, fetchLineIndex - FetchWindow)..fetchLineIndex :
                    IsFunctionStart(lines, i)})

\* the column of the first brace of line at or after column j, -1 if none
NextBrace(line, j) ==
    LET First(cols) == IF cols = {} THEN -1 ELSE CHOOSE k \in cols : \A m \in cols : k <= m
    IN  First({k \in j..(Len(line) - 1) : CharAt(line, k) \in {"{", "}"}})

RECURSIVE ScanBraces(_, _, _, _, _)
\* the character loop of the forward scan over one line, from column j
\* (the characters that are not braces change nothing and are stepped over)
ScanBraces(line, j, braceCount, inFunction, onStartLine) ==
    LET At(b) ==
            IF b = -1
            THEN [braceCount |-> braceCount, inFunction |-> inFunction, ended |-> FALSE]
            ELSE IF CharAt(line, b) = "{"
            THEN ScanBraces(line, b + 1, braceCount + 1,
                            inFunction \/ (onStartLine /\ braceCount + 1 = 1), onStartLine)
            ELSE IF inFunction /\ braceCount - 1 = 0
            THEN [braceCount |-> braceCount - 1, inFunction |-> inFunction, ended |-> TRUE]
            ELSE ScanBraces(line, b + 1, braceCount - 1, inFunction, onStartLine)
    IN  At(NextBrace(line, j))

RECURSIVE FindFunctionEnd(_, _, _, _, _, _)
\* the forward loop from line i: the line that closes the function, -1 if
\* it is not found before line fetchLineIndex + FetchWindow
FindFunctionEnd(lines, i, braceCount, inFunction, functionStart, fetchLineIndex) ==
    IF ~(i < Len(lines) /\ i < fetchLineIndex + FetchWindow) THEN -1
    ELSE LET After(r) ==
                 IF r.ended THEN i
                 ELSE FindFunctionEnd(lines, i + 1, r.braceCount, r.inFunction,
                                      functionStart, fetchLineIndex)
         IN  After(ScanBraces(lines[i + 1], 0, braceCount, inFunction, i = functionStart))

\* a handler test that knows the promise handler only
HasHandlerChainOnly(line) == Includes(line, ".catch(")

\* lines 593 and 604: the line opens a try block or attaches a .catch
HasHandler(line) ==
    Includes(line, ".catch(") \/ Includes(line, "try {") \/ Includes(line, "try{")

\* lines 609-623: the call line is part of a promise chain with a .catch
RECURSIVE ChainHasCatch(_, _, _)
ChainHasCatch(lines, i, fetchLineIndex) ==
    IF ~(i < Min(Len(lines), fetchLineIndex + ChainWindow)) THEN FALSE
    ELSE LET line == lines[i + 1]
         IN  IF Includes(line, ".catch(") THEN TRUE
             ELSE IF Includes(line, ";") /\ ~EndsWith(Trim(line), "\\")
                     /\ ~EndsWith(Trim(line), ",")
             THEN FALSE
             ELSE ChainHasCatch(lines, i + 1, fetchLineIndex)

isFetchCallProperlyHandled(lines, fetchLineIndex) ==
    LET currentLine == lines[fetchLineIndex + 1]
        Handled(functionStart, functionEnd) ==
            IF functionStart = -1 \/ functionEnd = -1
            THEN \E i \in Max(0, fetchLineIndex - LocalBefore)..
                          (Min(Len(lines), fetchLineIndex + LocalAfter) - 1) :
                     \/ HasHandler(lines[i + 1])
                     \/ i > 0 /\ Includes(lines[i], "try") /\ Includes(lines[i + 1], ".catch(")
            ELSE \/ \E i \in functionStart..functionEnd : HasHandler(lines[i + 1])
                 \/ /\ Includes(currentLine, "fetch(")
                    /\ (Includes(currentLine, ".then(") \/ Includes(currentLine, ".catch("))
                    /\ ChainHasCatch(lines, fetchLineIndex, fetchLineIndex)
        From(functionStart) ==
            Handled(functionStart,
                    FindFunctionEnd(lines, IF functionStart = -1 THEN 0 ELSE functionStart,
                                    0, FALSE, functionStart, fetchLineIndex))
    IN  From(FindFunctionStart(lines, fetchLineIndex))

\* (line.match(/c/g) || []).length for a single character c
CountChar(line, c) == Cardinality({j \in 1..Len(line) : SubSeq(line, j, j) = c})

RECURSIVE InTryCatchFrom(_, _, _, _)
\* the backward loop of isInTryCatchBlock at line i
InTryCatchFrom(lines, i, tryBlockDepth, catchBlockStartLine) ==
    IF i < 0 THEN FALSE
    ELSE LET line == lines[i + 1]
             isCatch == Includes(line, "catch (")
             catchLine == IF isCatch THEN i ELSE catchBlockStartLine
             openBraces == CountChar(line, "{")
             closeBraces == CountChar(line, "}")
             depth == IF openBraces > closeBraces THEN tryBlockDepth + 1
                      ELSE IF closeBraces > openBraces
                      THEN Max(0, tryBlockDepth - closeBraces + openBraces)
                      ELSE tryBlockDepth
         IN  IF isCatch /\ (\/ Includes(line, "{")
                            \/ \E j \in (i + 1)..(Min(i + CatchLookahead, Len(lines)) - 1) :
                                   Includes(lines[j + 1], "{"))
             THEN TRUE
             ELSE IF (Includes(line, "try {") \/ (Includes(line, "try") /\ Includes(line, "{")))
                     /\ catchLine > i
             THEN TRUE
             ELSE IF depth = 0 /\ catchLine > i THEN TRUE
             ELSE InTryCatchFrom(lines, i - 1, depth, catchLine)

isInTryCatchBlock(lines, lineIndex) == InTryCatchFrom(lines, lineIndex, 0, -1)

-----------------------------------------------------------------------------
(* The source lines the modelled files are made of.                        *)

MarkerLines == {
    "// eslint-disable-next-line",
    "// @ts-expect-error",
    "// @ts-ignore" }

CodeLines == {
    "const data: any = {};",
    "const xs: Array<any> = [];",
    "function f(a: any) { return a; }",
    "const v = (w as any).any [0];",
    "const e = el as Foo as Bar;",
    "type M = { [key: string]: any };",
    "import { useRouter, Link } from 'react';",
    "import { useRouter } from 'react';",
    "import _ from 'lodash'; // TODO",
    "const ok = 1;" }

ScanLines == MarkerLines \cup CodeLines

\* the files of the modelled project, in the order glob returns them (one
\* glob per extension: the .ts files first)
ProjectFiles == <<
    [path |-> "app/page.ts", readable |-> TRUE,
     lines |-> <<"import { useRouter } from 'react';",
                 "import _ from 'lodash'; // TODO",
                 "const data: any = {};">>],
    [path |-> "app/__tests__/page.test.ts", readable |-> TRUE,
     lines |-> <<"console.log('render');",
                 "if (a) { if (b) { run(); } }",
                 "const data: any = {};">>],
    [path |-> "app/clean.ts", readable |-> TRUE,
     lines |-> <<"const ok = 1;">>],
    [path |-> "scripts/build.js", readable |-> TRUE,
     lines |-> <<"console.warn('build');">>] >>

\* the lines of the functions built around a network call
FetchText ==
    [header        |-> "async function load(items, url) {",
     try           |-> "  try {",
     filler        |-> "    const n = 1;",
     callback      |-> "    items.forEach(async (item) => {",
     call          |-> "      const r = await fetch(url);",
     callbackClose |-> "    });",
     catch         |-> "  } catch (e) { report(e); }",
     chainCatch    |-> "    r.catch(report);",
     close         |-> "}"]

\* a file glob returns: its path, its lines, and whether readFileSync can
\* read it when analyzeFile gets to it
SourceFile(path, lines) == [path |-> path, lines |-> lines, readable |-> TRUE]

(* Files of the repository's own test material, scanned as they are.      *)

\* tests/t6-react-patterns.tsx, lines 6-33: the anti-patterns over several lines
ReactFixture ==
    SourceFile("tests/t6-react-patterns.tsx", <<
        "function BadComponent({ value }: { value: number }) {",
        "    const [derived, setDerived] = useState(0);",
        "",
        "    // Should detect: useEffect_derived_state",
        "    useEffect(() => {",
        "        setDerived(value * 2);",
        "    }, [value]);",
        "",
        "    // Should detect: useEffect_empty_deps_suspicious",
        "    useEffect(() => {",
        "        console.log('runs only once?');",
        "    }, []);",
        "",
        "    // Should detect: useCallback_no_deps",
        "    const handler = useCallback(() => {",
        "        console.log(value); // uses value but deps is empty!",
        "    }, []);",
        "",
        "    return null;",
        "}",
        "",
        "// Should detect: setState_in_loop",
        "function LoopComponent({ items }: { items: string[] }) {",
        "    const [count, setCount] = useState(0);",
        "",
        "    for (const item of items) {",
        "        setCount(count + 1);  // Bad! setState in loop",
        "    }" >>)

\* the single-line versions of the same anti-patterns
ReactSingleLine ==
    SourceFile("tests/t6b-react-patterns.tsx", <<
        "// Single-line versions that SHOULD be detected",
        "const useEffectDerived = () => { useEffect(() => { setDerived(value * 2); }, [value]); }",
        "const useEffectEmpty = () => { useEffect(() => { doSomething(); }, []); }",
        "const useCallbackEmpty = () => { useCallback(() => { doSomething(); }, []); }",
        "",
        "// setState in loop on single line",
        "function loopBad() { for (const i of items) { setCount(i); } }" >>)

\* verification-test.ts, lines 5-22: parseResponse and findUser
VerificationSample ==
    SourceFile("verification-test.ts", <<
        "// Legitimate JSON parsing - should NOT be flagged",
        "function parseResponse(jsonStr: string): any {",
        "  try {",
        "    return JSON.parse(jsonStr);",
        "  } catch (error) {",
        "    console.error('Parse error:', error);",
        "    return null;",
        "  }",
        "}",
        "",
        "// Legitimate simple conditional - should NOT be flagged",
        "function findUser(users: any[], id: number): any | null {",
        "  const userIndex = users.findIndex(user => user.id === id);",
        "  if (userIndex === -1) {",
        "    return null;",
        "  }",
        "  return users[userIndex];",
        "}" >>)

\* the clean sample, lines 59-72: processData and debugUser
CleanSample ==
    SourceFile("clean-sample.ts", <<
        "// Multiple legitimate uses of 'any' for generic data processing",
        "function processData(data: any[]): any[] {",
        "  return data.map(item => {",
        "    if (typeof item === 'object' && item !== null) {",
        "      return { ...item, processed: true };",
        "    }",
        "    return item;",
        "  });",
        "}",
        "",
        "// Legitimate console log for debugging in development",
        "function debugUser(user: any) {",
        "  console.log('Debug user:', user);",
        "}" >>)

\* the slop sample, lines 16-34
SlopSample ==
    SourceFile("slop-sample.ts", <<
        "// Another example with AI patterns",
        "const fetchData = async () => {",
        "  const response = fetch(\"https://api.example.com\"); // Missing error handling",
        "  const data = await response.json(); // Hopefully this works",
        "  return data;",
        "};",
        "",
        "// Self-explanatory variable assignment",
        "const count = count; // assign count to count",
        "",
        "// Hallucinated React import",
        "import { useRouter } from 'react'; // This doesn't exist in React!",
        "",
        "// Overconfident comment",
        "function complexFunction() {",
        "  // Simply do all the things that are obviously required",
        "  const x = 1 + 1; // trivial calculation",
        "  return x;",
        "}" >>)

SampleFiles == <<ReactFixture, ReactSingleLine, VerificationSample, CleanSample, SlopSample>>

\* every line a modelled file can contain
AllLines ==
    ScanLines \cup Range(FetchText)
    \cup UNION {Range(ProjectFiles[k].lines) : k \in 1..Len(ProjectFiles)}
    \cup UNION {Range(SampleFiles[k].lines) : k \in 1..Len(SampleFiles)}

\* the flags each known source is compiled with: the built-in flags, and gi
\* for the source of a custom pattern
KnownFlags ==
    [src \in DOMAIN BuiltinSyntax |->
        BuiltinPatterns[CHOOSE k \in 1..Len(BuiltinPatterns) :
                            BuiltinPatterns[k].pattern.source = src].pattern.flags]
    @@ [src \in DOMAIN CustomSyntax |-> "gi"]

\* the exec loop of every known pattern on every modelled line, computed once
ExecMemo ==
    [src \in DOMAIN RegExpSyntax |->
        [line \in AllLines |->
            ExecAll([ast |-> RegExpSyntax[src], ci |-> Includes(KnownFlags[src], "i")], line)]]

-----------------------------------------------------------------------------
(* analyzeFile: the per-line scanner and its context filters.              *)

IndentLimit == 16        \* leading blanks from which a control line is "highly indented"

Issue(type, file, line, column, code, message, severity) ==
    [type |-> type, file |-> file, line |-> line, column |-> column,
     code |-> code, message |-> message, severity |-> severity]

\* lines 636-640 (and again 797-801)
IsTestFile(filePath) ==
    \/ Includes(filePath, "__tests__")
    \/ Includes(filePath, ".test.")
    \/ Includes(filePath, ".spec.")
    \/ Includes(filePath, "__mocks__")
    \/ Includes(filePath, "test-")

\* line 642
IsMockFile(filePath) == Includes(filePath, "__mocks__") \/ Includes(filePath, "mock")

\* lines 670-672: the acknowledgment markers honoured on the line and on
\* the line above it
IsAcknowledged(line, prevLine) ==
    \/ Includes(line, "eslint-disable")
    \/ Includes(line, "@ts-expect-error")
    \/ Includes(line, "@ts-ignore")
    \/ Includes(prevLine, "eslint-disable-next-line")
    \/ Includes(prevLine, "@ts-expect-error")

\* line 668: the rules the acknowledgment check applies to
IsAcknowledgeable(id) == Includes(id, "any") \/ Includes(id, "unsafe")

\* lines 775, 790: the path test of the comment and assertion carve-outs
LooksLikeTestPath(filePath) ==
    Includes(filePath, "test") \/ Includes(filePath, "spec") \/ Includes(filePath, "__tests__")

\* lines 651-653: the rule is skipped for the whole file
IsSkipped(pattern, filePath) ==
    \/ pattern.skipTests /\ IsTestFile(filePath)
    \/ pattern.skipMocks /\ IsMockFile(filePath)
    \/ pattern.id = "complex_nested_conditionals"

\* lines 667-806: one of the `continue` statements of the match loop rejects
\* a match of pattern on line i (every test reads the line, none the match)
IsRejected(pattern, filePath, lines, i, quietMode) ==
    LET line     == lines[i + 1]
        prevLine == IF i > 0 THEN lines[i] ELSE ""
        id       == pattern.id
        fullLine == Trim(line)
    IN  \/ IsAcknowledgeable(id) /\ IsAcknowledged(line, prevLine)
        \/ Includes(id, "any") /\ EndsWith(filePath, ".d.ts")
        \/ /\ id = "any_type_usage"
           /\ \/ Includes(line, "expect.any(") \/ Includes(line, "jest.fn()")
              \/ Includes(line, "{...") /\ Includes(line, "as any")
              \/ Includes(line, "JSON.parse(") \/ Includes(line, ".json")
              \/ Includes(line, "response.json")
              \/ Includes(line, "ApiResponse") \/ Includes(line, "apiResponse")
              \/ Includes(line, "res.json") \/ Includes(line, "fetch")
              \/ Includes(line, "axios")
              \/ /\ \/ Includes(line, "data: any") \/ Includes(line, "(data: any)")
                    \/ Includes(line, "result: any") \/ Includes(line, "response: any")
                 /\ \/ Includes(line, "parse") \/ Includes(line, "process")
                    \/ Includes(line, "transform")
        \/ /\ id = "function_param_any_type"
           /\ \/ /\ Includes(line, "(data: any)")
                 /\ \/ Includes(line, "parse") \/ Includes(line, "process")
                    \/ Includes(line, "transform")
              \/ Includes(line, "ApiResponse") \/ Includes(line, "apiResponse")
              \/ Includes(line, "JSON.parse") \/ Includes(line, "response: any")
        \/ id = "missing_error_handling" /\ isFetchCallProperlyHandled(lines, i)
        \/ id = "unsafe_double_type_assertion" /\ Includes(fullLine, "as unknown as")
        \/ /\ id = "production_console_log"
           /\ \/ Includes(fullLine, "console.error(") /\ isInTryCatchBlock(lines, i)
              \/ /\ Includes(fullLine, "console.log(")
                 /\ \/ Includes(fullLine, "Debug") \/ Includes(fullLine, "debug")
                    \/ Includes(fullLine, "debug:")
              \/ /\ Includes(fullLine, "console.log(") \/ Includes(fullLine, "console.info(")
                 /\ Includes(fullLine, "error") \/ Includes(fullLine, "Error")
        \/ /\ id \in {"hedging_uncertainty_comment", "assumption_comment"}
           /\ \/ LooksLikeTestPath(filePath)
              \/ /\ Includes(ToLowerCase(fullLine), "should work")
                 /\ \/ Includes(ToLowerCase(fullLine), "//")
                    \/ Includes(ToLowerCase(fullLine), "/*")
                    \/ Includes(ToLowerCase(fullLine), "*/")
        \/ id = "unsafe_type_assertion" /\ LooksLikeTestPath(filePath)
        \/ quietMode /\ id # "production_console_log" /\ IsTestFile(filePath)

\* line 661: new RegExp(pattern.pattern.source, pattern.pattern.flags)
Recompile(pattern) ==
    [ast |-> RegExpSyntax[pattern.pattern.source], ci |-> Includes(pattern.pattern.flags, "i")]

\* lines 661-664: the matches the exec loop of a rule visits on a line
Matches(pattern, line) ==
    IF line \in AllLines /\ pattern.pattern.flags = KnownFlags[pattern.pattern.source]
    THEN ExecMemo[pattern.pattern.source][line]
    ELSE ExecAll(Recompile(pattern), line)

\* lines 649-818: the issues pushed for one rule on line i
PatternIssues(pattern, filePath, lines, i, quietMode) ==
    IF IsSkipped(pattern, filePath) THEN <<>>
    ELSE LET Pushed(ms) ==
                 IF ms = <<>> THEN <<>>
                 ELSE IF IsRejected(pattern, filePath, lines, i, quietMode) THEN <<>>
                 ELSE [k \in 1..Len(ms) |->
                          Issue(pattern.id, filePath, i + 1, ms[k].index + 1, ms[k].code,
                                pattern.message \o " (" \o pattern.description \o ")",
                                pattern.severity)]
         IN  Pushed(Matches(pattern, lines[i + 1]))

IfRe    == [ast |-> Cat(<<WB, Str("if"), OptS, Str("(")>>), ci |-> FALSE]     \* /\bif\s*\(/g
ForRe   == [ast |-> Cat(<<WB, Str("for"), OptS, Str("(")>>), ci |-> FALSE]    \* /\bfor\s*\(/g
WhileRe == [ast |-> Cat(<<WB, Str("while"), OptS, Str("(")>>), ci |-> FALSE]  \* /\bwhile\s*\(/g

\* a count that tells only whether the line has a match
MatchCountAtMostOne(re, line) == IF ExecAll(re, line) = <<>> THEN 0 ELSE 1

\* line.match(re): the number of matches (0 for null)
MatchCount(re, line) == Len(ExecAll(re, line))

analyzeComplexNestedConditionals(filePath, lineNumber, line) ==
    LET Single(ifMatches, forMatches, whileMatches, trimmedLine) ==
            IF \/ ifMatches > 1 \/ forMatches > 1 \/ whileMatches > 1
               \/ ifMatches > 0 /\ (forMatches > 0 \/ whileMatches > 0)
               \/ forMatches > 0 /\ whileMatches > 0
            THEN <<Issue("complex_nested_conditionals", filePath, lineNumber, 1, trimmedLine,
                         "Found potentially complex nested control structures in a single line. Consider refactoring for readability.",
                         "medium")>>
            ELSE <<>>
        Indented(indentation, trimmedLine) ==
            IF /\ indentation >= IndentLimit
               /\ \/ Includes(line, "if (") \/ Includes(line, "for (")
                  \/ Includes(line, "while (")
               /\ ~StartsWith(trimmedLine, "//") /\ ~Includes(trimmedLine, "=>")
            THEN <<Issue("complex_nested_conditionals", filePath, lineNumber,
                         indentation + 1, trimmedLine,
                         "Highly indented control structure suggests deep nesting. Consider refactoring for readability.",
                         "medium")>>
            ELSE <<>>
        Both(trimmedLine) ==
            Single(MatchCount(IfRe, line), MatchCount(ForRe, line), MatchCount(WhileRe, line),
                   trimmedLine)
            \o Indented(SearchNonSpace(line), trimmedLine)
    IN  Both(Trim(line))

\* lines 644-823: the issues pushed while line i is scanned: the rules in
\* registry order, then the nested-conditional check
LineIssues(patterns, filePath, lines, i, quietMode) ==
    Flatten([k \in 1..Len(patterns) |->
                PatternIssues(patterns[k], filePath, lines, i, quietMode)])
    \o analyzeComplexNestedConditionals(filePath, i + 1, lines[i + 1])

\* lines 649-664: the exec loop of a rule that is not skipped never ends on
\* some line of the file, so analyzeFile does not return
Hangs(patterns, filePath, lines) ==
    \E k \in 1..Len(patterns), n \in 1..Len(lines) :
        /\ ~IsSkipped(patterns[k], filePath)
        /\ Spins(Matches(patterns[k], lines[n]))

\* analyzeFile(filePath, quiet): the issues it pushes onto this.issues
analyzeFile(patterns, filePath, lines, quietMode) ==
    Flatten([n \in 1..Len(lines) |-> LineIssues(patterns, filePath, lines, n - 1, quietMode)])

-----------------------------------------------------------------------------
(* consolidateIssues and exportResults.                                    *)

RECURSIVE DecimalDigits(_)
\* String(n) for a natural number n
DecimalDigits(n) ==
    LET d == <<"0", "1", "2", "3", "4", "5", "6", "7", "8", "9">>[(n % 10) + 1]
    IN  IF n < 10 THEN d ELSE DecimalDigits(n \div 10) \o d

\* a location written column first
LocationColumnFirst(issue) == DecimalDigits(issue.column) \o ":" \o DecimalDigits(issue.line)

\* `${issue.line}:${issue.column}`
Location(issue) == DecimalDigits(issue.line) \o ":" \o DecimalDigits(issue.column)

\* line 1128: the Map key of an issue
IssueKey(issue) ==
    issue.type \o "|" \o issue.file \o "|" \o issue.code \o "|" \o issue.message
        \o "|" \o issue.severity

\* issueMap.has(key): the index of the entry stored under key, 0 if none.
\* The map is the sequence of its entries in insertion order.
MapIndex(map, key) ==
    IF \E k \in 1..Len(map) : map[k].key = key
    THEN CHOOSE k \in 1..Len(map) : map[k].key = key
    ELSE 0

\* an iteration that keeps only the first location of every key
ConsolidateStepFirstOnly(map, issue) ==
    LET key == IssueKey(issue)
    IN  IF MapIndex(map, key) # 0
        THEN map
        ELSE Append(map,
                 [key |-> key,
                  value |-> [type |-> issue.type, file |-> issue.file, code |-> issue.code,
                             message |-> issue.message, severity |-> issue.severity,
                             location |-> <<Location(issue)>>]])

\* lines 1130-1144: one iteration of the loop, on the map built so far
ConsolidateStep(map, issue) ==
    LET key == IssueKey(issue)
        k   == MapIndex(map, key)
    IN  IF k # 0
        THEN [map EXCEPT ![k].value.location = Append(@, Location(issue))]
        ELSE Append(map,
                 [key |-> key,
                  value |-> [type |-> issue.type, file |-> issue.file, code |-> issue.code,
                             message |-> issue.message, severity |-> issue.severity,
                             location |-> <<Location(issue)>>]])

RECURSIVE ConsolidateLoop(_, _)
ConsolidateLoop(map, list) ==
    IF list = <<>> THEN map
    ELSE ConsolidateLoop(ConsolidateStep(map, Head(list)), Tail(list))

\* consolidateIssues(): Array.from(issueMap.values())
consolidateIssues(list) ==
    LET Values(map) == [k \in 1..Len(map) |-> map[k].value]
    IN  Values(ConsolidateLoop(<<>>, list))

RECURSIVE countOccurrences(_)
\* issues.reduce((sum, issue) => sum + issue.location.length, 0)
countOccurrences(entries) ==
    IF entries = <<>> THEN 0
    ELSE Len(Head(entries).location) + countOccurrences(Tail(entries))

\* exportResults: the results object written to ai-slop-report.json
\* (timestamp and the byType samples are left out)
ExportedResults(list) ==
    LET Results(consolidatedIssues) ==
            [uniqueIssues     |-> Len(consolidatedIssues),
             totalOccurrences |-> countOccurrences(consolidatedIssues),
             bySeverity       |->
                 [sev \in ValidSeverities |->
                     countOccurrences(SelectSeq(consolidatedIssues,
                                                LAMBDA e : e.severity = sev))],
             issues           |-> consolidatedIssues]
    IN  Results(consolidateIssues(list))

-----------------------------------------------------------------------------
(* calculateKarpeSlopScore.  The three sums are JavaScript values: `+=`    *)
(* adds two numbers and concatenates as soon as one operand is not one.    *)

JsNumber(n) == [t |-> "number", n |-> n, s |-> ""]
JsString(s) == [t |-> "string", n |-> 0, s |-> s]

\* String(v)
JsToString(v) == IF v.t = "number" THEN DecimalDigits(v.n) ELSE v.s

\* a + b
JsAdd(a, b) ==
    IF a.t = "number" /\ b.t = "number" THEN JsNumber(a.n + b.n)
    ELSE JsString(JsToString(a) \o JsToString(b))

\* lines 1236-1260: the own properties of the weights object
Weights ==
    ("hallucinated_react_import" :> 30)
    @@ ("hallucinated_next_import" :> 30)
    @@ ("any_type_usage" :> 15)
    @@ ("unsafe_type_assertion" :> 12)
    @@ ("unsafe_double_type_assertion" :> 12)
    @@ ("overconfident_comment" :> 10)
    @@ ("hedging_uncertainty_comment" :> 10)
    @@ ("todo_implementation_placeholder" :> 12)
    @@ ("assumption_comment" :> 11)
    @@ ("redundant_self_explanatory_comment" :> 8)
    @@ ("excessive_boilerplate_comment" :> 6)
    @@ ("debug_log_with_comment" :> 5)
    @@ ("unnecessary_iife_wrapper" :> 7)
    @@ ("vibe_coded_ternary_abuse" :> 6)

\* weights is an object literal, so a lookup that finds no own property goes
\* on to Object.prototype: the inherited members, each with the text `+`
\* converts its value to (a function's source text, an object's tag)
ObjectPrototype ==
    ("constructor" :> "function Object() { [native code] }")
    @@ ("toString" :> "function toString() { [native code] }")
    @@ ("toLocaleString" :> "function toLocaleString() { [native code] }")
    @@ ("valueOf" :> "function valueOf() { [native code] }")
    @@ ("hasOwnProperty" :> "function hasOwnProperty() { [native code] }")
    @@ ("isPrototypeOf" :> "function isPrototypeOf() { [native code] }")
    @@ ("propertyIsEnumerable" :> "function propertyIsEnumerable() { [native code] }")
    @@ ("__proto__" :> "[object Object]")

\* line 1265: weights[i.type] || 3 (every own weight and every inherited
\* member is truthy)
WeightOf(type) ==
    IF type \in DOMAIN Weights THEN JsNumber(Weights[type])
    ELSE IF type \in DOMAIN ObjectPrototype THEN JsString(ObjectPrototype[type])
    ELSE JsNumber(3)

\* lines 1265-1268: one iteration of the loop over this.issues
ScoreStep(acc, i) ==
    LET Add(w) ==
            IF \/ Includes(i.type, "hallucinated") \/ Includes(i.type, "todo")
               \/ Includes(i.type, "assumption")
            THEN [acc EXCEPT !.quality = JsAdd(@, w)]
            ELSE IF \/ Includes(i.type, "comment") \/ Includes(i.type, "redundant")
                    \/ Includes(i.type, "boilerplate")
            THEN [acc EXCEPT !.utility = JsAdd(@, w)]
            ELSE [acc EXCEPT !.style = JsAdd(@, w)]
    IN  Add(WeightOf(i.type))

RECURSIVE ScoreLoop(_, _)
ScoreLoop(acc, list) ==
    IF list = <<>> THEN acc
    ELSE ScoreLoop(ScoreStep(acc, Head(list)), Tail(list))

\* calculateKarpeSlopScore() on this.issues = list
calculateKarpeSlopScore(list) ==
    LET Breakdown(acc) ==
            [informationUtility |-> acc.utility,
             informationQuality |-> acc.quality,
             style              |-> acc.style,
             total              |-> JsAdd(JsAdd(acc.utility, acc.quality), acc.style)]
    IN  Breakdown(ScoreLoop([utility |-> JsNumber(0), quality |-> JsNumber(0),
                             style |-> JsNumber(0)], list))

-----------------------------------------------------------------------------
(* The run: runIfMain constructs the detector, detects, exports, exits.    *)

RootDir == "/repo"

\* the absolute path glob returns for a project-relative path
AbsPath(rel) == RootDir \o "/" \o rel

CoreAppDirs == <<"app/", "components/", "lib/", "hooks/", "services/">>

\* findAllFiles, lines 503-516: the filter applied to what glob returned
IsGenerated(relativePath) ==
    \/ Includes(relativePath, "generated/") \/ Includes(relativePath, "/generated")
    \/ StartsWith(relativePath, "generated/") \/ Includes(relativePath, "coverage/")
    \/ Includes(relativePath, ".next/") \/ Includes(relativePath, "node_modules/")
    \/ Includes(relativePath, "dist/") \/ Includes(relativePath, "build/")
    \/ Includes(relativePath, ".git/") \/ Includes(relativePath, "out/")
    \/ Includes(relativePath, "temp/")

\* findAllFiles(): fsFiles is what glob.sync returns, in order
findAllFiles(files) == SelectSeq(files, LAMBDA f : ~IsGenerated(f.path))

\* detect, lines 450-455
FilesToAnalyze(files, quietMode) ==
    IF quietMode
    THEN SelectSeq(findAllFiles(files),
                   LAMBDA f : \E d \in 1..Len(CoreAppDirs) : StartsWith(f.path, CoreAppDirs[d]))
    ELSE findAllFiles(files)

NoExit == -1

\* the detector was started directly, not by the launcher
NoLauncher == [pc |-> "none", ran |-> "none", err |-> "none", code |-> NoExit]

\* new AISlopDetector(rootDir): the constructor runs loadConfig
Construct ==
    /\ pc = "new"
    /\ UNCHANGED launcher
    /\ LET Assign(loaded) ==
               /\ detectionPatterns' = loaded.detectionPatterns
               /\ customIgnorePaths' = loaded.customIgnorePaths
               /\ configReads' = loaded.read
       IN  Assign(LoadConfig(configFiles, 1))
    /\ pc' = "constructed"
    /\ UNCHANGED <<configFiles, fsFiles, quiet, strict, filesToAnalyze, fileIdx,
                   issues, score, report, exitCode>>

\* detect(quiet), lines 443-457: select the files
DetectStart ==
    /\ pc = "constructed"
    /\ UNCHANGED launcher
    /\ filesToAnalyze' = FilesToAnalyze(fsFiles, quiet)
    /\ fileIdx' = 1
    /\ pc' = "detecting"
    /\ UNCHANGED <<configFiles, configReads, fsFiles, quiet, strict, detectionPatterns,
                   customIgnorePaths, issues, score, report, exitCode>>

\* an iteration that skips a file it cannot read and goes on with the next
AnalyzeNextSkipping ==
    /\ pc = "detecting"
    /\ UNCHANGED launcher
    /\ fileIdx <= Len(filesToAnalyze)
    /\ LET f == filesToAnalyze[fileIdx]
       IN  issues' = IF f.readable
                     THEN issues \o analyzeFile(detectionPatterns, AbsPath(f.path),
                                                f.lines, quiet)
                     ELSE issues
    /\ fileIdx' = fileIdx + 1
    /\ UNCHANGED <<pc, exitCode, configFiles, configReads, fsFiles, quiet, strict,
                   detectionPatterns, customIgnorePaths, filesToAnalyze, score, report>>

\* detect, lines 460-462: one iteration of the loop over filesToAnalyze.
\* When readFileSync throws (line 632) nothing catches the error before the
\* catch block of runIfMain (lines 1346-1348), which exits with 1.
\* When the exec loop of line 664 never ends the run stays in analyzeFile
\* (pc "hung"): it prints no report and does not exit by itself.
AnalyzeNext ==
    /\ pc = "detecting"
    /\ UNCHANGED launcher
    /\ fileIdx <= Len(filesToAnalyze)
    /\ LET f == filesToAnalyze[fileIdx]
       IN  IF ~f.readable
           THEN /\ pc' = "exit"
                /\ exitCode' = 1
                /\ UNCHANGED <<issues, fileIdx>>
           ELSE IF Hangs(detectionPatterns, AbsPath(f.path), f.lines)
           THEN /\ pc' = "hung"
                /\ UNCHANGED <<issues, fileIdx, exitCode>>
           ELSE /\ issues' = issues \o analyzeFile(detectionPatterns, AbsPath(f.path),
                                                     f.lines, quiet)
                /\ fileIdx' = fileIdx + 1
                /\ UNCHANGED <<pc, exitCode>>
    /\ UNCHANGED <<configFiles, configReads, fsFiles, quiet, strict, detectionPatterns,
                   customIgnorePaths, filesToAnalyze, score, report>>

\* detect, lines 464-467: generateReport prints the report and the score
\* breakdown (line 1078); the issues are returned
DetectEnd ==
    /\ pc = "detecting"
    /\ UNCHANGED launcher
    /\ fileIdx > Len(filesToAnalyze)
    /\ score' = Append(score, calculateKarpeSlopScore(issues))
    /\ pc' = "detected"
    /\ UNCHANGED <<configFiles, configReads, fsFiles, quiet, strict, detectionPatterns,
                   customIgnorePaths, filesToAnalyze, fileIdx, issues, report, exitCode>>

\* runIfMain, lines 1334-1335: exportResults writes the report
ExportResults ==
    /\ pc = "detected"
    /\ UNCHANGED launcher
    /\ report' = <<ExportedResults(issues)>>
    /\ pc' = "exported"
    /\ UNCHANGED <<configFiles, configReads, fsFiles, quiet, strict, detectionPatterns,
                   customIgnorePaths, filesToAnalyze, fileIdx, issues, score, exitCode>>

\* an exit code that blocks on critical issues without --strict as well
ExitCodeAlwaysStrict(list, strictMode) ==
    IF \E k \in 1..Len(list) : list[k].severity = "critical"
    THEN 2
    ELSE IF Len(list) > 0 THEN 1 ELSE 0

\* runIfMain, lines 1338-1345: the argument of process.exit
ExitCode(list, strictMode) ==
    IF strictMode /\ \E k \in 1..Len(list) : list[k].severity = "critical"
    THEN 2
    ELSE IF Len(list) > 0 THEN 1 ELSE 0

\* runIfMain, lines 1338-1345: process.exit
Exit ==
    /\ pc = "exported"
    /\ UNCHANGED launcher
    /\ exitCode' = ExitCode(issues, strict)
    /\ pc' = "exit"
    /\ UNCHANGED <<configFiles, configReads, fsFiles, quiet, strict, detectionPatterns,
                   customIgnorePaths, filesToAnalyze, fileIdx, issues, score, report>>

Next ==
    \/ Construct
    \/ DetectStart
    \/ AnalyzeNext
    \/ DetectEnd
    \/ ExportResults
    \/ Exit

MaxDetectCalls == 2

\* detect(quiet), lines 443-457, called again on a detector whose detect
\* has returned: the files are selected anew; no statement of detect (or
\* of any other method) assigns this.issues, so the list is kept
DetectAgain ==
    /\ pc = "detected"
    /\ UNCHANGED launcher
    /\ Len(score) < MaxDetectCalls
    /\ filesToAnalyze' = FilesToAnalyze(fsFiles, quiet)
    /\ fileIdx' = 1
    /\ pc' = "detecting"
    /\ UNCHANGED <<configFiles, configReads, fsFiles, quiet, strict, detectionPatterns,
                   customIgnorePaths, issues, score, report, exitCode>>

\* a program that uses the detector as runIfMain does and may call detect
\* more than once
NextReuse == Next \/ DetectAgain

-----------------------------------------------------------------------------
(* Inputs.                                                                 *)

NoConfig ==
    [exists |-> FALSE, json |-> "object", customPatterns |-> <<>>,
     severityOverrides |-> <<>>, ignorePaths |-> <<>>]

ConfigObject(customPatterns, severityOverrides, ignorePaths) ==
    [exists |-> TRUE, json |-> "object", customPatterns |-> customPatterns,
     severityOverrides |-> severityOverrides, ignorePaths |-> ignorePaths]

CustomPattern(id, pattern, message, severity) ==
    [id |-> id, pattern |-> pattern, message |-> message, severity |-> severity,
     description |-> ""]

\* the state after the field initialisers of AISlopDetector, before the
\* constructor body, for a given disk content and command line
Fields(cfgs, files, q, st) ==
    /\ pc = "new"
    /\ configFiles = cfgs
    /\ configReads = <<>>
    /\ fsFiles = files
    /\ quiet = q
    /\ strict = st
    /\ detectionPatterns = BuiltinPatterns
    /\ customIgnorePaths = <<>>
    /\ filesToAnalyze = <<>>
    /\ fileIdx = 0
    /\ issues = <<>>
    /\ score = <<>>
    /\ report = <<>>
    /\ exitCode = NoExit

\* the detector started from the command line, without the launcher
Start(cfgs, files, q, st) ==
    /\ Fields(cfgs, files, q, st)
    /\ launcher = NoLauncher

\* all sequences over set of length 1..n
SeqsUpTo(set, n) == UNION {[1..k -> set] : k \in 1..n}

MaxScanLines == 2

ScanConfigs == {
    <<NoConfig, NoConfig, NoConfig>>,
    <<ConfigObject(<<CustomPattern("no_lodash", "lodash", "lodash is banned", "medium")>>,
                   <<>>, <<>>), NoConfig, NoConfig>>,
    <<ConfigObject(<<CustomPattern("company_imports", "lodash", "lodash is banned", "medium")>>,
                   <<>>, <<>>), NoConfig, NoConfig>>,
    <<ConfigObject(<<CustomPattern("blank_run", "\\s*", "run of blanks", "low")>>,
                   <<>>, <<>>), NoConfig, NoConfig>> }

\* one source file of at most MaxScanLines lines, scanned in full mode
InitScan ==
    \E cfgs \in ScanConfigs, ls \in SeqsUpTo(ScanLines, MaxScanLines) :
        Start(cfgs, <<SourceFile("app/page.ts", ls)>>, FALSE, FALSE)

SpecScan == InitScan /\ [][Next]_vars

\* one source file of one line, with each of the scanned configurations
InitScanLine ==
    \E cfgs \in ScanConfigs,
       line \in MarkerLines \cup {"const data: any = {};", "const ok = 1;",
                                  "import _ from 'lodash'; // TODO"} :
        Start(cfgs, <<SourceFile("app/page.ts", <<line>>)>>, FALSE, FALSE)

\* the runs on such a file, none of which stops while a step of the run can
\* be taken
SpecScanFair == InitScanLine /\ [][Next]_vars /\ WF_vars(Next)


\* one sample file, whole or cut off at a line: a prefix or a suffix of it
InitSample ==
    \E k \in 1..Len(SampleFiles) :
        \E lo \in 1..Len(SampleFiles[k].lines), hi \in 1..Len(SampleFiles[k].lines) :
            /\ lo <= hi
            /\ lo = 1 \/ hi = Len(SampleFiles[k].lines)
            /\ Start(<<NoConfig, NoConfig, NoConfig>>,
                     <<[SampleFiles[k] EXCEPT !.lines = SubSeq(@, lo, hi)]>>, FALSE, FALSE)

SpecSample == InitSample /\ [][Next]_vars

\* the configuration candidates of the modelled projects: the first one is
\* absent, valid, or broken in one of the ways validateConfig rejects
ValidConfig ==
    ConfigObject(<<CustomPattern("no_lodash", "lodash", "lodash is banned", "medium")>>,
                 <<[key |-> "any_type_usage", value |-> "low"]>>, <<>>)
SecondConfig ==
    ConfigObject(<<CustomPattern("no_foo", "foo\\(", "foo is banned", "low")>>, <<>>, <<>>)
\* overrides for a custom rule, for the type of the nested-conditional
\* issues and for an id no rule has
OverrideConfig ==
    ConfigObject(<<CustomPattern("no_lodash", "lodash", "lodash is banned", "medium")>>,
                 <<[key |-> "complex_nested_conditionals", value |-> "high"],
                   [key |-> "no_lodash", value |-> "critical"],
                   [key |-> "no_such_rule", value |-> "low"]>>, <<>>)
\* a custom rule whose id is the name of a member of Object.prototype
InheritedIdConfig ==
    ConfigObject(<<CustomPattern("constructor", "lodash", "lodash is banned", "medium")>>,
                 <<>>, <<>>)
BrokenConfigs == {
    ConfigObject(<<CustomPattern("", "lodash", "lodash is banned", "medium")>>, <<>>, <<>>),
    ConfigObject(<<CustomPattern("no_lodash", "", "lodash is banned", "medium")>>, <<>>, <<>>),
    ConfigObject(<<CustomPattern("no_lodash", "lodash", "", "medium")>>, <<>>, <<>>),
    ConfigObject(<<CustomPattern("no_lodash", "lodash", "lodash is banned", "fatal")>>,
                 <<>>, <<>>),
    ConfigObject(<<CustomPattern("no_lodash", "(", "lodash is banned", "medium")>>, <<>>, <<>>),
    [NoConfig EXCEPT !.exists = TRUE, !.json = "syntaxError"],
    [NoConfig EXCEPT !.exists = TRUE, !.json = "null"] }

RunConfigs ==
    {<<first, second, NoConfig>> :
        first \in {NoConfig, ValidConfig, OverrideConfig, InheritedIdConfig}
                      \cup BrokenConfigs,
        second \in {NoConfig, SecondConfig}}

\* the sub-sequences of seq, as sequences
SubSeqs(seq) ==
    {LET keep == {k \in 1..Len(seq) : k \in ks}
         nth(n) == CHOOSE k \in keep : Cardinality({j \in keep : j <= k}) = n
     IN  [n \in 1..Cardinality(keep) |-> seq[nth(n)]] : ks \in SUBSET (1..Len(seq))}

\* a run of the command: any configuration candidates, any part of the
\* project on disk, at most one file of it unreadable, with or without
\* --quiet and --strict
Init ==
    \E cfgs \in RunConfigs, files \in SubSeqs(ProjectFiles), q \in BOOLEAN, st \in BOOLEAN :
        \E bad \in 0..Len(files) :
            Start(cfgs, IF bad = 0 THEN files ELSE [files EXCEPT ![bad].readable = FALSE],
                  q, st)

Spec == Init /\ [][Next]_vars

\* configurations with ignore paths: a valid one, one whose custom rule
\* does not compile and one whose severity override is not a severity
IgnoringConfig ==
    ConfigObject(<<CustomPattern("no_foo", "foo\\(", "foo is banned", "low"),
                   CustomPattern("no_lodash", "lodash", "lodash is banned", "medium")>>,
                 <<[key |-> "magic_css_value", value |-> "high"]>>, <<"legacy", "vendor">>)
BrokenRuleConfig ==
    ConfigObject(<<CustomPattern("no_foo", "foo\\(", "foo is banned", "low"),
                   CustomPattern("no_lodash", "(", "lodash is banned", "medium")>>,
                 <<[key |-> "any_type_usage", value |-> "low"]>>, <<"legacy">>)
BrokenOverrideConfig ==
    ConfigObject(<<CustomPattern("no_lodash", "lodash", "lodash is banned", "medium")>>,
                 <<[key |-> "any_type_usage", value |-> "low"],
                   [key |-> "todo_comment", value |-> "fatal"]>>, <<"legacy">>)

CandidateConfigs ==
    {NoConfig, ValidConfig, SecondConfig, OverrideConfig, IgnoringConfig,
     BrokenRuleConfig, BrokenOverrideConfig,
     [NoConfig EXCEPT !.exists = TRUE, !.json = "syntaxError"],
     [NoConfig EXCEPT !.exists = TRUE, !.json = "null"]}

\* a project of one file with any three configuration candidates
InitConfig ==
    \E first \in CandidateConfigs, second \in CandidateConfigs, third \in CandidateConfigs :
        Start(<<first, second, third>>, <<ProjectFiles[1]>>, FALSE, FALSE)

SpecConfig == InitConfig /\ [][Next]_vars

\* lines with no, one and several control-structure openers, of one kind
\* and of several, and with names that end in if, for or while
NestedLines == {
    "const ok = 1;",
    "if (a) run();",
    "if  (a) { meanwhile(b); }",
    "diff(a, b); endfor(c); elif(d);",
    "if (a) { if (b) { run(); } }",
    "for(;;) { for(;;) {} }",
    "while (a) { while (b) {} }",
    "for (const x of xs) if (x) run(x);",
    "while (i--) for (;;) {}",
    "} else if (a) { while(b) step(); }" }

MaxNestedLines == 2

\* one source file of at most MaxNestedLines of these lines
InitNested ==
    \E ls \in UNION {[1..k -> NestedLines] : k \in 1..MaxNestedLines} :
        Start(<<NoConfig, NoConfig, NoConfig>>, <<SourceFile("app/page.ts", ls)>>,
              FALSE, FALSE)

SpecNested == InitNested /\ [][Next]_vars

\* the lines of a try statement that logs in its catch block, and a log
\* call that stands outside of it
CatchLines == {
    "try {",
    "  run();",
    "} catch (e) {",
    "  console.error(e);",
    "}",
    "console.error('late');" }

MaxCatchLines == 3

\* one source file of at most MaxCatchLines of these lines
InitCatch ==
    \E ls \in UNION {[1..k -> CatchLines] : k \in 1..MaxCatchLines} :
        Start(<<NoConfig, NoConfig, NoConfig>>, <<SourceFile("app/page.ts", ls)>>,
              FALSE, FALSE)

SpecCatch == InitCatch /\ [][Next]_vars

\* the lines of a promise chain that starts with a network call
ChainText ==
    [header    |-> "function load(url) {",
     before    |-> "const n = 1;",
     call      |-> "  fetch(url).then(parse)",
     callCatch |-> "  fetch(url).then(parse).catch(report);",
     step      |-> "    .then(step)",
     lastStep  |-> "    .then(store);",
     catch     |-> "    .catch(report);",
     other     |-> "  other().catch(report);",
     close     |-> "}"]

MaxChainSteps == 4
MaxChainBefore == 2

\* a chain of steps continuation lines after the call line, ended by a
\* .catch line ("catch"), by a last step ("none"), or by a last step that
\* another statement with a .catch follows ("other"); "line" puts the
\* .catch on the call line itself
ChainStatement(steps, handler) ==
    IF handler = "line" THEN <<ChainText.callCatch>>
    ELSE <<ChainText.call>>
         \o [k \in 1..steps |-> ChainText.step]
         \o (IF handler = "catch" THEN <<ChainText.catch>> ELSE <<ChainText.lastStep>>)
         \o (IF handler = "other" THEN <<ChainText.other>> ELSE <<>>)

\* the statement at the top level of a module or in a function body
ChainFile(wrapped, before, steps, handler) ==
    [k \in 1..before |-> ChainText.before]
    \o (IF wrapped THEN <<ChainText.header>> ELSE <<>>)
    \o ChainStatement(steps, handler)
    \o (IF wrapped THEN <<ChainText.close>> ELSE <<>>)

InitChain ==
    \E wrapped \in BOOLEAN, before \in 0..MaxChainBefore, steps \in 0..MaxChainSteps,
       handler \in {"line", "catch", "none", "other"} :
        Start(<<NoConfig, NoConfig, NoConfig>>,
              <<SourceFile("app/load.ts", ChainFile(wrapped, before, steps, handler))>>,
              FALSE, FALSE)

SpecChain == InitChain /\ [][Next]_vars

\* paths of source files, test files and mock files, and paths of source
\* files whose names hold the letters of "test-", "spec" or "mock"
CategoryPaths == {
    "app/page.ts",
    "app/__tests__/page.test.ts",
    "app/page.spec.ts",
    "app/__mocks__/api.ts",
    "app/latest-news.ts",
    "app/inspector.ts",
    "app/hammock.ts" }

\* lines that match the rules with a file-category exemption
CategoryLines == {
    "console.log('render');",
    "fetch(url);",
    "// hopefully this is fine",
    "// assuming that it is sorted",
    "const v = w as any;" }

MaxCategoryLines == 2

\* one file of at most MaxCategoryLines of these lines, with or without --quiet
InitCategory ==
    \E path \in CategoryPaths, q \in BOOLEAN,
       ls \in UNION {[1..k -> CategoryLines] : k \in 1..MaxCategoryLines} :
        Start(<<NoConfig, NoConfig, NoConfig>>, <<SourceFile(path, ls)>>, q, FALSE)

SpecCategory == InitCategory /\ [][Next]_vars

\* a configuration that lists the same custom rule twice
DuplicateRuleConfig ==
    ConfigObject(<<CustomPattern("no_lodash", "lodash", "lodash is banned", "medium"),
                   CustomPattern("no_lodash", "lodash", "lodash is banned", "medium")>>,
                 <<>>, <<>>)

\* any part of the project, with no configuration, with one custom rule or
\* with the same rule listed twice, with or without --quiet
InitOrder ==
    \E first \in {NoConfig, ValidConfig, DuplicateRuleConfig},
       files \in SubSeqs(ProjectFiles), q \in BOOLEAN :
        Start(<<first, NoConfig, NoConfig>>, files, q, FALSE)

SpecOrder == InitOrder /\ [][Next]_vars

\* any part of the project, with no configuration, with or without --quiet,
\* scanned by a detector on which detect may be called again
InitReuse ==
    \E files \in SubSeqs(ProjectFiles), q \in BOOLEAN :
        Start(<<NoConfig, NoConfig, NoConfig>>, files, q, FALSE)

SpecReuse == InitReuse /\ [][NextReuse]_vars

\* The launcher, src/karpeslop.js (src/karpeslop-cli.js is the same program):
\* it starts the detector as a child process and forwards its exit code.

\* what spawn can report for the command: the child started, or the
\* 'error' event with the code of the failure
SpawnOutcomes == {"ok", "ENOENT", "EACCES"}

\* code || 0, line 44: null (a child ended by a signal) and 0 give 0
OrZero(code) == IF code \in {NoExit, 0} THEN 0 ELSE code

\* line 18: spawn(command, [detector, ...args])
LaunchPrimary ==
    /\ launcher.pc = "start"
    /\ \E outcome \in SpawnOutcomes :
           launcher' = IF outcome = "ok"
                       THEN [launcher EXCEPT !.pc = "primary", !.ran = "primary"]
                       ELSE [launcher EXCEPT !.pc = "error", !.err = outcome]
    /\ UNCHANGED <<pc, configFiles, configReads, fsFiles, quiet, strict, detectionPatterns,
                   customIgnorePaths, filesToAnalyze, fileIdx, issues, score, report,
                   exitCode>>

\* child.on('error'), lines 23-41: on ENOENT the detector is spawned again
\* through node --import tsx, with an 'error' listener only; any other
\* failure ends the launcher with 1
OnChildError ==
    /\ launcher.pc = "error"
    /\ IF launcher.err = "ENOENT"
       THEN \E outcome \in SpawnOutcomes :
               launcher' = IF outcome = "ok"
                           THEN [launcher EXCEPT !.pc = "fallback", !.ran = "fallback"]
                           ELSE [launcher EXCEPT !.pc = "nodeError", !.err = outcome]
       ELSE launcher' = [launcher EXCEPT !.pc = "done", !.code = 1]
    /\ UNCHANGED <<pc, configFiles, configReads, fsFiles, quiet, strict, detectionPatterns,
                   customIgnorePaths, filesToAnalyze, fileIdx, issues, score, report,
                   exitCode>>

\* nodeChild.on('error'), lines 34-37
OnNodeChildError ==
    /\ launcher.pc = "nodeError"
    /\ launcher' = [launcher EXCEPT !.pc = "done", !.code = 1]
    /\ UNCHANGED <<pc, configFiles, configReads, fsFiles, quiet, strict, detectionPatterns,
                   customIgnorePaths, filesToAnalyze, fileIdx, issues, score, report,
                   exitCode>>

\* the child process, primary or fallback, runs the detector
\* (lines 18 and 29 pass the same script and the same arguments)
ChildStep ==
    /\ launcher.pc \in {"primary", "fallback"}
    /\ Next

\* the child process is ended by a signal before it exits by itself
ChildKilled ==
    /\ launcher.pc \in {"primary", "fallback"}
    /\ pc \notin {"exit", "killed"}
    /\ pc' = "killed"
    /\ UNCHANGED <<configFiles, configReads, fsFiles, quiet, strict, detectionPatterns,
                   customIgnorePaths, filesToAnalyze, fileIdx, issues, score, report,
                   exitCode, launcher>>

\* child.on('exit'), lines 43-45: process.exit(code || 0); the code of a
\* child ended by a signal is null
OnChildExit ==
    /\ launcher.pc = "primary"
    /\ pc \in {"exit", "killed"}
    /\ launcher' = [launcher EXCEPT !.pc = "done", !.code = OrZero(exitCode)]
    /\ UNCHANGED <<pc, configFiles, configReads, fsFiles, quiet, strict, detectionPatterns,
                   customIgnorePaths, filesToAnalyze, fileIdx, issues, score, report,
                   exitCode>>

\* lines 29-37: nodeChild has no 'exit' listener; when the fallback child
\* has ended nothing keeps the launcher alive and it exits with the
\* default code 0
FallbackChildEnded ==
    /\ launcher.pc = "fallback"
    /\ pc \in {"exit", "killed"}
    /\ launcher' = [launcher EXCEPT !.pc = "done", !.code = 0]
    /\ UNCHANGED <<pc, configFiles, configReads, fsFiles, quiet, strict, detectionPatterns,
                   customIgnorePaths, filesToAnalyze, fileIdx, issues, score, report,
                   exitCode>>

NextLauncher ==
    \/ LaunchPrimary
    \/ OnChildError
    \/ OnNodeChildError
    \/ ChildStep
    \/ ChildKilled
    \/ OnChildExit
    \/ FallbackChildEnded

\* the launcher run on any part of the project, at most one file of it
\* unreadable, with or without --quiet and --strict
InitLauncher ==
    \E files \in SubSeqs(ProjectFiles), q \in BOOLEAN, st \in BOOLEAN :
        \E bad \in 0..Len(files) :
            /\ Fields(<<NoConfig, NoConfig, NoConfig>>,
                      IF bad = 0 THEN files ELSE [files EXCEPT ![bad].readable = FALSE],
                      q, st)
            /\ launcher = [NoLauncher EXCEPT !.pc = "start"]

SpecLauncher == InitLauncher /\ [][NextLauncher]_vars

\* ignorePaths lists a configuration can hold: a directory of the
\* project, single files of it, and a directory the project has not
IgnoreLists == {
    <<"scripts">>,
    <<"app/__tests__">>,
    <<"app/clean.ts">>,
    <<"app/page.ts", "scripts/build.js">>,
    <<"legacy">> }

\* a run with no configuration or with a valid first configuration that
\* holds ignorePaths, on any part of the project, with or without --quiet
InitIgnore ==
    \E first \in {NoConfig} \cup {ConfigObject(<<>>, <<>>, l) : l \in IgnoreLists},
       files \in SubSeqs(ProjectFiles), q \in BOOLEAN :
        Start(<<first, NoConfig, NoConfig>>, files, q, FALSE)

SpecIgnore == InitIgnore /\ [][Next]_vars

\* line comments with each of the hedging phrases of the rule, the hedging
\* comments of tests/fixtures/clean-code.ts (lines 119-122) and a line of code
HedgingLines == {
    "// this should work",
    "// should work hopefully",
    "// hopefully fine",
    "// probably correct",
    "// might work",
    "// try this",
    "// I think so",
    "// seems to pass",
    "// attempting to load",
    "// looks like a bug",
    "// appears to hang",
    "const ok = 1;" }

MaxHedgingLines == 2

\* one source file of at most MaxHedgingLines of these lines
InitHedging ==
    \E ls \in UNION {[1..k -> HedgingLines] : k \in 1..MaxHedgingLines} :
        Start(<<NoConfig, NoConfig, NoConfig>>, <<SourceFile("app/page.ts", ls)>>,
              FALSE, FALSE)

SpecHedging == InitHedging /\ [][Next]_vars

-----------------------------------------------------------------------------
(* Properties of the scanner, checked on the runs of SpecScan.             *)

\* detect has returned: issues is the list it returns
Detected == pc \in {"detected", "exported", "exit"} /\ score # <<>>

\* the issues of the given type recorded for a line (1-based) of a file
IssuesAt(list, type, file, lineNumber) ==
    SelectSeq(list, LAMBDA x : x.type = type /\ x.file = file /\ x.line = lineNumber)

HallucinatedNames == <<"useRouter", "useParams", "useSearchParams", "Link", "Image", "Script">>

\* import { N1, ..., Nk } from 'react' with k >= 1 and every Ni one of the
\* six names that React does not export
HallucinatedListRe ==
    [ast |-> Cat(<<Str("import"), OptS, Str("{"), OptS, Words(HallucinatedNames),
                   Star(Cat(<<OptS, Str(","), OptS, Words(HallucinatedNames)>>)),
                   OptS, Str("}"), OptS, Str("from"), OptS, Quote, Str("react"), Quote>>),
     ci |-> FALSE]

ImportsHallucinatedNames(line) == Len(ExecAll(HallucinatedListRe, line)) = 1

\* C1: a line importing, from the module react, a brace list naming one or
\* more of useRouter, useParams, useSearchParams, Link, Image, Script yields
\* exactly one hallucinated_react_import issue, of severity critical.
C1_ImportListDetected ==
    Detected =>
        \A f \in 1..Len(filesToAnalyze) :
            \A n \in 1..Len(filesToAnalyze[f].lines) :
                ImportsHallucinatedNames(filesToAnalyze[f].lines[n]) =>
                    LET found == IssuesAt(issues, "hallucinated_react_import",
                                          AbsPath(filesToAnalyze[f].path), n)
                    IN  Len(found) = 1 /\ found[1].severity = "critical"

\* the rules the acknowledgment check is meant for
AnyFamily ==
    {"any_type_usage", "array_any_type", "generic_any_type", "function_param_any_type",
     "unsafe_type_assertion", "unsafe_double_type_assertion", "index_signature_any",
     "unsafe_member_access"}

\* the line carries one of the three acknowledgment markers
CarriesMarker(line) ==
    \/ Includes(line, "eslint-disable")
    \/ Includes(line, "@ts-expect-error")
    \/ Includes(line, "@ts-ignore")

\* C3: a match of an any/unsafe rule on a line is not reported when that
\* line or the line directly above it carries an acknowledgment marker
\* (eslint-disable, @ts-expect-error, @ts-ignore).
C3_MarkerSuppresses ==
    Detected =>
        \A f \in 1..Len(filesToAnalyze) :
            LET lines == filesToAnalyze[f].lines
            IN  \A n \in 1..Len(lines) :
                    (CarriesMarker(lines[n]) \/ (n > 1 /\ CarriesMarker(lines[n - 1]))) =>
                        \A x \in Range(issues) :
                            ~(/\ x.type \in AnyFamily
                              /\ x.file = AbsPath(filesToAnalyze[f].path)
                              /\ x.line = n)

\* the issues of the rules outside the any/unsafe family, from a line on
OtherIssuesFrom(list, file, lineNumber) ==
    SelectSeq(list, LAMBDA x : x.type \notin AnyFamily /\ x.file = file /\ x.line >= lineNumber)

\* C4: a marker on the line above has no effect on the matches of rules
\* outside the any/unsafe family: they are reported as if the marker line
\* were blank.
C4_MarkerLeavesOtherRules ==
    Detected =>
        \A f \in 1..Len(filesToAnalyze) :
            LET lines == filesToAnalyze[f].lines
                file  == AbsPath(filesToAnalyze[f].path)
            IN  \A n \in 2..Len(lines) :
                    CarriesMarker(lines[n - 1]) =>
                        OtherIssuesFrom(issues, file, n)
                          = OtherIssuesFrom(analyzeFile(detectionPatterns, file,
                                                        [lines EXCEPT ![n - 1] = ""], quiet),
                                            file, n)

-----------------------------------------------------------------------------
(* Properties of the whole run, checked on the runs of Spec.               *)

\* a custom rule the validation has to reject
IsInvalidCustomRule(cp) ==
    \/ cp.id = "" \/ cp.pattern = "" \/ cp.message = ""
    \/ cp.severity \notin ValidSeverities
    \/ ~Compiles(cp.pattern)

\* the configuration file the run reads first holds an invalid custom rule
ReadsInvalidConfig ==
    \E k \in 1..Len(configFiles) :
        /\ configFiles[k].exists
        /\ configFiles[k].json = "object"
        /\ \A j \in 1..(k - 1) : ~configFiles[j].exists
        /\ \E i \in 1..Len(configFiles[k].customPatterns) :
               IsInvalidCustomRule(configFiles[k].customPatterns[i])

\* C2: when the configuration file fails validation the run aborts: no
\* file is analysed and no issue is reported.
C2_InvalidConfigAborts ==
    ReadsInvalidConfig => fileIdx <= 1 /\ issues = <<>>

\* the path marks the file as a test file
IsMarkedTest(filePath) ==
    \/ Includes(filePath, "__tests__")
    \/ Includes(filePath, ".test.")
    \/ Includes(filePath, ".spec.")

\* C5: in quiet mode every issue recorded for a test file has type
\* production_console_log; no other rule, the complex-nesting check
\* included, records an issue for it.
C5_QuietTestFilesOnlyLogging ==
    quiet =>
        \A x \in Range(issues) :
            IsMarkedTest(x.file) => x.type = "production_console_log"

\* the console logging calls on a line
ConsoleCalls(line) == ExecAll([ast |-> ConsoleLogRe.ast, ci |-> FALSE], line)

\* the logging carve-outs: console.error inside a catch block, console.log
\* with debug wording, console.log or console.info with error wording
IsLoggingCarveOut(lines, i) ==
    LET line == Trim(lines[i + 1])
    IN  \/ Includes(line, "console.error(") /\ isInTryCatchBlock(lines, i)
        \/ /\ Includes(line, "console.log(")
           /\ Includes(line, "Debug") \/ Includes(line, "debug")
        \/ /\ Includes(line, "console.log(") \/ Includes(line, "console.info(")
           /\ Includes(line, "error") \/ Includes(line, "Error")

\* C6: in quiet mode a console logging call in a test or mock file that no
\* logging carve-out removes is reported as production_console_log.
C6_QuietReportsTestLogging ==
    (Detected /\ quiet) =>
        \A f \in 1..Len(filesToAnalyze) :
            LET lines == filesToAnalyze[f].lines
                file  == AbsPath(filesToAnalyze[f].path)
            IN  (IsTestFile(file) \/ IsMockFile(file)) =>
                    \A n \in 1..Len(lines) :
                        (ConsoleCalls(lines[n]) # <<>> /\ ~IsLoggingCarveOut(lines, n - 1)) =>
                            Len(IssuesAt(issues, "production_console_log", file, n))
                              = Len(ConsoleCalls(lines[n]))

\* the run has ended after detect returned (no exception was thrown)
ExitedNormally == pc = "exit" /\ Detected

\* at least one issue of severity critical was found
HasCritical == \E x \in Range(issues) : x.severity = "critical"

\* C13: a run that completes without an exception has written the report
\* and exits with 2 exactly when --strict was given and a critical issue
\* was found, otherwise with 1 exactly when an issue was found, otherwise
\* with 0.
C13_ExitCodeReflectsIssues ==
    ExitedNormally =>
        /\ report # <<>>
        /\ exitCode \in {0, 1, 2}
        /\ exitCode = 2 <=> (strict /\ HasCritical)
        /\ exitCode = 1 <=> (~(strict /\ HasCritical) /\ issues # <<>>)
        /\ exitCode = 0 <=> issues = <<>>

\* a run without --strict that found a critical issue has exited with 1
C13_Witness ==
    /\ ExitedNormally
    /\ ~strict
    /\ HasCritical
    /\ exitCode = 1
    /\ report # <<>>

\* the constructor has returned
Constructed == pc # "new"

\* the configuration loadConfig applied: the last candidate it read, when
\* that one is an object that passes validation; NoConfig when there is none
AppliedConfig ==
    IF configReads # <<>> /\ ValidateConfig(configFiles[configReads[Len(configReads)]]) = ""
    THEN configFiles[configReads[Len(configReads)]]
    ELSE NoConfig

\* the keys of the severityOverrides object of the applied configuration
OverriddenIds == {AppliedConfig.severityOverrides[k].key :
                     k \in 1..Len(AppliedConfig.severityOverrides)}

\* the severity the applied configuration gives an overridden id
OverrideFor(id) ==
    AppliedConfig.severityOverrides[
        CHOOSE k \in 1..Len(AppliedConfig.severityOverrides) :
            AppliedConfig.severityOverrides[k].key = id].value

\* the severities declared for an issue type: by the built-in rules of that
\* id, by the custom rules of that id, and "medium" by the nested-
\* conditional check
OwnSeverities(type) ==
    {BuiltinPatterns[k].severity : k \in {j \in 1..Len(BuiltinPatterns) :
                                             BuiltinPatterns[j].id = type}}
    \cup {AppliedConfig.customPatterns[k].severity :
             k \in {j \in 1..Len(AppliedConfig.customPatterns) :
                       AppliedConfig.customPatterns[j].id = type}}
    \cup (IF type = "complex_nested_conditionals" THEN {"medium"} ELSE {})

\* C14: every issue of an overridden type and every registered rule of an
\* overridden id carries the overriding severity, every other issue the
\* severity its rule declares, and a key that names no rule changes nothing
\* (the registry is the built-in rules and the custom rules).
C14_OverridesApplied ==
    Constructed =>
        /\ \A x \in Range(issues) :
               IF x.type \in OverriddenIds
               THEN x.severity = OverrideFor(x.type)
               ELSE x.severity \in OwnSeverities(x.type)
        /\ \A k \in 1..Len(detectionPatterns) :
               detectionPatterns[k].id \in OverriddenIds =>
                   detectionPatterns[k].severity = OverrideFor(detectionPatterns[k].id)
        /\ Len(detectionPatterns)
             = Len(BuiltinPatterns) + Len(AppliedConfig.customPatterns)

\* the regular expressions the source text of the detector defines
PredefinedRegExps == {BuiltinPatterns[k].pattern : k \in 1..Len(BuiltinPatterns)}

\* the rules whose pattern analyzeFile has executed on the lines of the
\* n-th analysed file
RulesRunOn(n) ==
    IF filesToAnalyze[n].lines = <<>> THEN {}
    ELSE {k \in 1..Len(detectionPatterns) :
             ~IsSkipped(detectionPatterns[k], AbsPath(filesToAnalyze[n].path))}

\* C15: every regular expression executed on the lines of a scanned file
\* is one of the predefined patterns; none comes from a file of the
\* scanned project.
C15_OnlyPredefinedPatternsRun ==
    \A n \in 1..(fileIdx - 1) :
        \A k \in RulesRunOn(n) : detectionPatterns[k].pattern \in PredefinedRegExps

\* the files analysed before the n-th file of the run
AnalysedBefore(n) == {AbsPath(filesToAnalyze[m].path) : m \in 1..(n - 1)}

\* C18: when a file of the run cannot be read, the loop never gets past
\* it (every issue comes from a file before it), no report is written, and
\* the process exits with 1 whatever the issues found so far.
C18_ReadFailureAborts ==
    \A n \in 1..Len(filesToAnalyze) :
        ~filesToAnalyze[n].readable =>
            /\ fileIdx <= n
            /\ \A x \in Range(issues) : x.file \in AnalysedBefore(n)
            /\ report = <<>>
            /\ pc \in {"detecting", "exit"}
            /\ pc = "exit" => exitCode = 1

\* a --strict run that had found a critical issue has ended with 1 at an
\* unreadable file
C18_Witness ==
    /\ pc = "exit"
    /\ exitCode = 1
    /\ report = <<>>
    /\ fileIdx <= Len(filesToAnalyze)
    /\ ~filesToAnalyze[fileIdx].readable
    /\ strict
    /\ HasCritical

-----------------------------------------------------------------------------
(* Properties of loadConfig, checked on the runs of SpecConfig.            *)

\* candidate raw is a file that parses to a configuration whose custom rules
\* have an id, a pattern that compiles, a message and a severity, and whose
\* severity overrides are severities
PassesValidation(raw) ==
    /\ raw.exists
    /\ raw.json = "object"
    /\ \A i \in 1..Len(raw.customPatterns) :
           /\ raw.customPatterns[i].id # ""
           /\ raw.customPatterns[i].pattern \in DOMAIN RegExpSyntax
           /\ raw.customPatterns[i].message # ""
           /\ raw.customPatterns[i].severity \in ValidSeverities
    /\ \A i \in 1..Len(raw.severityOverrides) :
           raw.severityOverrides[i].value \in ValidSeverities

\* the index of the first candidate that passes validation, 0 without one
FirstValid ==
    IF \E k \in 1..Len(configFiles) : PassesValidation(configFiles[k])
    THEN CHOOSE k \in 1..Len(configFiles) :
             /\ PassesValidation(configFiles[k])
             /\ \A j \in 1..(k - 1) : ~PassesValidation(configFiles[j])
    ELSE 0

\* the rules the registry is expected to hold for configuration cfg
ExpectedRules(cfg) ==
    BuiltinPatterns \o
        [i \in 1..Len(cfg.customPatterns) |->
            [id |-> cfg.customPatterns[i].id,
             pattern |-> [source |-> cfg.customPatterns[i].pattern, flags |-> "gi"],
             message |-> cfg.customPatterns[i].message,
             severity |-> cfg.customPatterns[i].severity,
             description |-> cfg.customPatterns[i].message,
             skipTests |-> FALSE, skipMocks |-> FALSE]]

\* registered is rule expected, with its own severity or one that cfg gives
\* its id
IsRuleOf(registered, expected, cfg) ==
    /\ [registered EXCEPT !.severity = expected.severity] = expected
    /\ \/ registered.severity = expected.severity
       \/ \E i \in 1..Len(cfg.severityOverrides) :
              /\ cfg.severityOverrides[i].key = expected.id
              /\ cfg.severityOverrides[i].value = registered.severity

RegistryOf(cfg) ==
    /\ Len(detectionPatterns) = Len(ExpectedRules(cfg))
    /\ \A i \in 1..Len(detectionPatterns) :
           IsRuleOf(detectionPatterns[i], ExpectedRules(cfg)[i], cfg)
    /\ customIgnorePaths = cfg.ignorePaths

\* C20: after loadConfig the registry is the built-in rules followed by the
\* custom rules, in order, of the first candidate that passes validation
\* (severities as declared or as that candidate overrides them) and the
\* ignore paths are that candidate's; without such a candidate the registry
\* is the built-in rules and there is no ignore path, so a candidate that
\* fails validation contributes nothing; no candidate after the first valid
\* one is read.
C20_RegistryFromFirstValidConfig ==
    Constructed =>
        /\ FirstValid = 0 =>
               /\ detectionPatterns = BuiltinPatterns
               /\ customIgnorePaths = <<>>
        /\ FirstValid # 0 =>
               /\ RegistryOf(configFiles[FirstValid])
               /\ \A j \in 1..Len(configReads) : configReads[j] <= FirstValid

\* a rejected first candidate with rules, an override and an ignore path, a
\* valid second candidate that was loaded and a third one that exists and
\* was not read
C20_Witness ==
    /\ Constructed
    /\ configFiles[1] = BrokenRuleConfig
    /\ configFiles[2] = IgnoringConfig
    /\ configFiles[3].exists
    /\ configReads = <<1, 2>>
    /\ Len(detectionPatterns) = Len(BuiltinPatterns) + 2
    /\ customIgnorePaths = <<"legacy", "vendor">>

-----------------------------------------------------------------------------
(* Properties of analyzeComplexNestedConditionals, checked on SpecNested.  *)

\* the keyword word opens a control structure at the 1-based position i of
\* line: it starts a word there and a "(" follows it after blanks only
IsOpenerAt(line, i, word) ==
    /\ i + Len(word) - 1 <= Len(line)
    /\ SubSeq(line, i, i + Len(word) - 1) = word
    /\ i = 1 \/ SubSeq(line, i - 1, i - 1) \notin WordChars
    /\ \E j \in (i + Len(word))..Len(line) :
           /\ SubSeq(line, j, j) = "("
           /\ \A k \in (i + Len(word))..(j - 1) : SubSeq(line, k, k) \in WhiteSpace

\* the number of if(, for( and while( openers of the line, counted together
OpenerCount(line) ==
    Cardinality({<<word, i>> \in {"if", "for", "while"} \X (1..Len(line)) :
                    IsOpenerAt(line, i, word)})

SingleLineMessage ==
    "Found potentially complex nested control structures in a single line. Consider refactoring for readability."

\* the single-line trigger issues recorded for line n of file f
SingleLineIssues(f, n) ==
    SelectSeq(IssuesAt(issues, "complex_nested_conditionals",
                       AbsPath(filesToAnalyze[f].path), n),
              LAMBDA x : x.message = SingleLineMessage)

\* C21: a line gets the single-line trigger issue (column 1, severity
\* medium, the trimmed line as code), and gets it once, if and only if it
\* holds at least two control-structure openers, if(, for( and while(
\* counted together.
C21_SingleLineTriggerIffTwoOpeners ==
    Detected =>
        \A f \in 1..Len(filesToAnalyze) :
            \A n \in 1..Len(filesToAnalyze[f].lines) :
                /\ Len(SingleLineIssues(f, n)) =
                       IF OpenerCount(filesToAnalyze[f].lines[n]) >= 2 THEN 1 ELSE 0
                /\ \A k \in 1..Len(SingleLineIssues(f, n)) :
                       /\ SingleLineIssues(f, n)[k].column = 1
                       /\ SingleLineIssues(f, n)[k].severity = "medium"
                       /\ SingleLineIssues(f, n)[k].code = Trim(filesToAnalyze[f].lines[n])

\* a file with a line of two openers of different kinds, which is reported,
\* and a line with one opener, which is not
C21_Witness ==
    /\ Detected
    /\ Len(filesToAnalyze) = 1
    /\ filesToAnalyze[1].lines = <<"for (const x of xs) if (x) run(x);", "if (a) run();">>
    /\ Len(SingleLineIssues(1, 1)) = 1
    /\ SingleLineIssues(1, 2) = <<>>

-----------------------------------------------------------------------------
(* Properties of the catch-block exemption of console.error, checked on    *)
(* SpecCatch.                                                              *)

\* opening minus closing braces of a text
BraceBalance(text) == CountChar(text, "{") - CountChar(text, "}")

\* the text of line from its first "catch (" on
FromCatch(line) ==
    SubSeq(line,
           CHOOSE p \in 1..Len(line) :
               /\ p + 6 <= Len(line) /\ SubSeq(line, p, p + 6) = "catch ("
               /\ \A q \in 1..(p - 1) : ~(q + 6 <= Len(line) /\ SubSeq(line, q, q + 6) = "catch ("),
           Len(line))

RECURSIVE JoinLines(_, _, _)
\* lines a..b (1-based) one after the other
JoinLines(lines, a, b) == IF a > b THEN "" ELSE lines[a] \o JoinLines(lines, a + 1, b)

\* text opens a block that none of its closing braces ends
OpensBlockStillOpen(text) ==
    /\ CountChar(text, "{") > 0
    /\ \A q \in 1..Len(text) :
           CountChar(SubSeq(text, 1, q), "{") > 0 => BraceBalance(SubSeq(text, 1, q)) > 0

\* line n (1-based) lies in the block of a catch clause that starts on a
\* line above it
EnclosedByCatch(lines, n) ==
    \E c \in 1..(n - 1) :
        /\ Includes(lines[c], "catch (")
        /\ OpensBlockStillOpen(FromCatch(lines[c]) \o JoinLines(lines, c + 1, n - 1))

\* C22: a line with a console.error( call for which no production_console_log
\* issue is recorded lies in the block of a catch clause: a call after the
\* catch block has closed is reported.
C22_ConsoleErrorExemptOnlyInCatch ==
    Detected =>
        \A f \in 1..Len(filesToAnalyze) :
            \A n \in 1..Len(filesToAnalyze[f].lines) :
                (/\ Includes(filesToAnalyze[f].lines[n], "console.error(")
                 /\ IssuesAt(issues, "production_console_log",
                             AbsPath(filesToAnalyze[f].path), n) = <<>>)
                => EnclosedByCatch(filesToAnalyze[f].lines, n)

-----------------------------------------------------------------------------
(* Properties of the promise-chain check, checked on SpecChain.            *)

\* the 1-based number of the line of the fetch call
FetchLine(lines) == CHOOSE n \in 1..Len(lines) : Includes(lines[n], "fetch(")

\* the line ends a statement: it holds a semicolon and does not end in a
\* line continuation or a comma
EndsStatement(line) ==
    /\ Includes(line, ";")
    /\ ~EndsWith(Trim(line), "\\")
    /\ ~EndsWith(Trim(line), ",")

\* the number of lines after the call line in which a .catch counts
ChainSpan == ChainWindow - 1

\* the call line n is part of a promise chain whose statement has a .catch(
\* on line n or on one of the next ChainSpan lines, no line before it
\* ending the statement
ChainHasHandler(lines, n) ==
    /\ Includes(lines[n], ".then(") \/ Includes(lines[n], ".catch(")
    /\ \E j \in n..Min(n + ChainSpan, Len(lines)) :
           /\ Includes(lines[j], ".catch(")
           /\ \A k \in n..(j - 1) : ~EndsStatement(lines[k])

\* C23: a fetch call on a promise-chain line whose statement has a .catch(
\* on the call line or on one of the next 4 lines is handled: no
\* missing_error_handling issue is recorded for it, at the top level of a
\* module as well as in a function body.
C23_ChainedCatchHandles ==
    Detected =>
        \A f \in 1..Len(filesToAnalyze) :
            ChainHasHandler(filesToAnalyze[f].lines, FetchLine(filesToAnalyze[f].lines))
            => IssuesAt(issues, "missing_error_handling", AbsPath(filesToAnalyze[f].path),
                        FetchLine(filesToAnalyze[f].lines)) = <<>>

-----------------------------------------------------------------------------
(* Properties of the file-category exemptions, checked on SpecCategory.    *)

\* the path names a test or mock file by convention: a __tests__ or
\* __mocks__ directory segment, or a .test. or .spec. infix
IsTestOrMockByConvention(path) ==
    \/ Includes(path, "__tests__") \/ Includes(path, "__mocks__")
    \/ Includes(path, ".test.") \/ Includes(path, ".spec.")

\* the path of a file of no category
PlainPath == AbsPath("app/page.ts")

\* the number of issues rule pattern yields on line n of lines in a file of
\* no category, scanned in full mode
UncategorizedCount(pattern, lines, n) ==
    IF IsRejected(pattern, PlainPath, lines, n - 1, FALSE) THEN 0
    ELSE Len(Matches(pattern, lines[n]))

\* C24: in a file whose path has no __tests__ or __mocks__ segment and no
\* .test. or .spec. infix no match is rejected because of the category of
\* the file: every rule yields on every line the issues it yields in a
\* source file of no category, with and without --quiet.
C24_CategoryByPathConvention ==
    Detected =>
        \A f \in 1..Len(filesToAnalyze) :
            ~IsTestOrMockByConvention(filesToAnalyze[f].path) =>
                \A n \in 1..Len(filesToAnalyze[f].lines), k \in 1..Len(detectionPatterns) :
                    detectionPatterns[k].id # "complex_nested_conditionals" =>
                        Len(IssuesAt(issues, detectionPatterns[k].id,
                                     AbsPath(filesToAnalyze[f].path), n))
                        = UncategorizedCount(detectionPatterns[k], filesToAnalyze[f].lines, n)

-----------------------------------------------------------------------------
(* Properties of the hedging-comment rule, checked on SpecHedging.         *)

HedgingPhrases ==
    {"should work", "hopefully", "probably", "might work", "try this", "i think",
     "seems to", "attempting to", "looks like", "appears to"}

\* phrase stands in text as whole words
HasPhrase(text, phrase) ==
    \E i \in 1..(Len(text) - Len(phrase) + 1) :
        /\ SubSeq(text, i, i + Len(phrase) - 1) = phrase
        /\ i = 1 \/ SubSeq(text, i - 1, i - 1) \notin WordChars
        /\ \/ i + Len(phrase) > Len(text)
           \/ SubSeq(text, i + Len(phrase), i + Len(phrase)) \notin WordChars

\* the line is a line comment that holds one of the hedging phrases
IsHedgingComment(line) ==
    /\ StartsWith(Trim(line), "//")
    /\ \E phrase \in HedgingPhrases : HasPhrase(ToLowerCase(line), phrase)

\* C26: in a source file that is not a test file every line comment with a
\* hedging phrase yields a hedging_uncertainty_comment issue, of severity
\* high.
C26_HedgingCommentsFlagged ==
    Detected =>
        \A f \in 1..Len(filesToAnalyze) :
            \A n \in 1..Len(filesToAnalyze[f].lines) :
                IsHedgingComment(filesToAnalyze[f].lines[n]) =>
                    /\ IssuesAt(issues, "hedging_uncertainty_comment",
                                AbsPath(filesToAnalyze[f].path), n) # <<>>
                    /\ \A x \in Range(IssuesAt(issues, "hedging_uncertainty_comment",
                                                AbsPath(filesToAnalyze[f].path), n)) :
                           x.severity = "high"

-----------------------------------------------------------------------------
(* Termination of detect, checked on the fair runs of SpecScanFair.        *)

\* C27: with every configuration validateConfig accepts, detect comes to an
\* end on every file: it returns its issues or fails on a file it cannot
\* read; no match loop runs for ever, also not that of a custom pattern
\* that can match the empty string.
C27_DetectTerminates == <>(pc \in {"detected", "exit"})

-----------------------------------------------------------------------------
(* Properties of repeated detect calls, checked on SpecReuse.              *)

\* the issues of one scan of the selected files
SingleRunIssues ==
    Flatten([f \in 1..Len(filesToAnalyze) |->
                analyzeFile(detectionPatterns, AbsPath(filesToAnalyze[f].path),
                            filesToAnalyze[f].lines, quiet)])

\* C28: whenever detect has returned, after one call or after several, the
\* issue list (and with it getIssueCount) is that of one scan of the files,
\* and the score breakdown of every call is that of the first call.
C28_IssuesReflectOneRun ==
    Detected =>
        /\ issues = SingleRunIssues
        /\ \A k \in 1..Len(score) : score[k] = score[1]

-----------------------------------------------------------------------------
(* The ignorePaths of the configuration, checked on the runs of SpecIgnore. *)

\* a file is named by an entry of ignorePaths: the entry is the file's
\* project-relative path or a directory above it (every reading of an
\* ignore entry, as a path, a prefix or a glob, covers these two cases)
MatchesIgnore(rel, entry) == rel = entry \/ StartsWith(rel, entry \o "/")

\* the files of the project named by the stored ignore paths
IgnoredFiles ==
    {f \in Range(fsFiles) :
        \E e \in 1..Len(customIgnorePaths) : MatchesIgnore(f.path, customIgnorePaths[e])}

\* C30: once a valid configuration with ignorePaths is loaded, detect
\* analyses no file named by one of its entries and reports no issue for
\* such a file.
C30_IgnorePathsHonoured ==
    pc \in {"detecting", "detected", "exported", "exit"} =>
        \A f \in IgnoredFiles :
            /\ \A k \in 1..Len(filesToAnalyze) : filesToAnalyze[k].path # f.path
            /\ \A i \in 1..Len(issues) : issues[i].file # AbsPath(f.path)

-----------------------------------------------------------------------------
(* The exit code of the launcher, checked on the runs of SpecLauncher.     *)

LauncherDone == launcher.pc = "done"

\* the detector ran as a child process and exited by itself
DetectorExited == launcher.ran # "none" /\ pc = "exit"

\* C29: when the launcher has exited, its exit code is the exit code of the
\* detector it ran (as the primary child or as the fallback child), and it
\* is 0 only if the detector ran and exited with 0: never when the detector
\* exited with 1 or 2, was ended by a signal or could not be started.
C29_LauncherForwardsExitCode ==
    LauncherDone =>
        /\ DetectorExited => launcher.code = exitCode
        /\ launcher.code = 0 => DetectorExited /\ exitCode = 0

-----------------------------------------------------------------------------
(* Properties of the score breakdown generateReport prints.                *)

\* the weight the table gives a rule id: its entry, 3 when it has none
TableWeight(type) == IF type \in DOMAIN Weights THEN Weights[type] ELSE 3

RECURSIVE TotalWeight(_)
\* the table weights of the issues of a list, added up
TotalWeight(list) ==
    IF list = <<>> THEN 0
    ELSE TableWeight(Head(list).type) + TotalWeight(Tail(list))

\* v is a JavaScript number holding a non-negative integer
IsCount(v) == v.t = "number" /\ v.n \in Nat

\* C11: the breakdown is three non-negative integers and their sum, and
\* the sum is the table weight of every issue counted once, 3 for an issue
\* whose type the table does not list.
C11_ScoreIsSumOfWeights ==
    score # <<>> =>
        /\ IsCount(score[1].informationUtility)
        /\ IsCount(score[1].informationQuality)
        /\ IsCount(score[1].style)
        /\ IsCount(score[1].total)
        /\ score[1].total.n = score[1].informationUtility.n
                                + score[1].informationQuality.n + score[1].style.n
        /\ score[1].total.n = TotalWeight(issues)

\* the comment rules the registry declares under the Style / Taste axis
StyleCommentRules == {"overconfident_comment", "hedging_uncertainty_comment"}

\* the issues of the Style / Taste comment rules
StyleCommentIssues(list) == SelectSeq(list, LAMBDA x : x.type \in StyleCommentRules)

\* C12: the weight of every overconfident_comment and
\* hedging_uncertainty_comment issue is part of the style score, and no
\* part of the utility or quality score (checked on the runs of SpecSample).
C12_StyleCommentsScoreStyle ==
    (score # <<>> /\ IsCount(score[1].total)) =>
        /\ score[1].style.n >= TotalWeight(StyleCommentIssues(issues))
        /\ score[1].informationUtility.n + score[1].informationQuality.n
             <= TotalWeight(issues) - TotalWeight(StyleCommentIssues(issues))

-----------------------------------------------------------------------------
(* Properties of the scan of the sample files, checked on the runs of      *)
(* SpecSample.                                                             *)

ShouldDetect == "// Should detect: "

\* the rule id a fixture comment announces for the code below it, "" when
\* the line is no such comment
AnnouncedRule(line) ==
    IF StartsWith(Trim(line), ShouldDetect)
    THEN SubSeq(Trim(line), Len(ShouldDetect) + 1, Len(Trim(line)))
    ELSE ""

\* the line numbers of the announcements of a file
Announcements(lines) == {n \in 1..Len(lines) : AnnouncedRule(lines[n]) # ""}

\* the last line of the code an announcement at line n covers: the line
\* before the next announcement, or the last line of the file
CoveredUpTo(lines, n) ==
    IF \E m \in Announcements(lines) : m > n
    THEN (CHOOSE m \in Announcements(lines) :
              m > n /\ \A j \in Announcements(lines) : j > n => m <= j) - 1
    ELSE Len(lines)

\* C16: in the React fixture every anti-pattern announced by a
\* "Should detect" comment and written over the following lines is
\* reported: an issue of the announced rule lies on the lines it covers.
C16_MultiLinePatternsDetected ==
    (Detected /\ fsFiles = <<ReactFixture>>) =>
        \A n \in Announcements(ReactFixture.lines) :
            \E x \in Range(issues) :
                /\ x.type = AnnouncedRule(ReactFixture.lines[n])
                /\ x.line > n
                /\ x.line <= CoveredUpTo(ReactFixture.lines, n)

\* the signature lines of the functions the clean samples declare
\* legitimate users of `any`
LegitimateSignatures == {
    "function parseResponse(jsonStr: string): any {",
    "function findUser(users: any[], id: number): any | null {",
    "function processData(data: any[]): any[] {",
    "function debugUser(user: any) {" }

\* C17: the signature line of a function the clean samples declare
\* legitimate gets no any_type_usage and no function_param_any_type issue.
C17_LegitimateAnyNotFlagged ==
    Detected =>
        \A n \in 1..Len(fsFiles[1].lines) :
            fsFiles[1].lines[n] \in LegitimateSignatures =>
                /\ IssuesAt(issues, "any_type_usage", AbsPath(fsFiles[1].path), n) = <<>>
                /\ IssuesAt(issues, "function_param_any_type",
                            AbsPath(fsFiles[1].path), n) = <<>>

\* the position where the match of re tried at position i of the line
\* ends, -1 when re does not match there
TryAt(re, line, i) ==
    LET Ended(ends) == IF ends = <<>> THEN -1 ELSE ends[1].p
    IN  Ended(Match(re.ast, line, [p |-> i, c |-> ""], re.ci))

\* TryAt for every known pattern at every position of every modelled line
TryMemo ==
    [src \in DOMAIN RegExpSyntax |->
        [line \in AllLines |->
            [i \in 0..Len(line) |->
                TryAt([ast |-> RegExpSyntax[src], ci |-> Includes(KnownFlags[src], "i")],
                      line, i)]]]

MatchEnd(pattern, line, i) ==
    IF line \in AllLines /\ pattern.pattern.flags = KnownFlags[pattern.pattern.source]
    THEN TryMemo[pattern.pattern.source][line][i]
    ELSE TryAt(Recompile(pattern), line, i)

\* the 0-based position where the text of an issue ends
EndOf(x) == x.column - 1 + Len(x.code)

\* found lists, from left to right, every match of the pattern on the line
\* that starts where the one before it ended or later, and nothing else
ListsTheMatches(found, pattern, line) ==
    /\ \A j \in 1..Len(found) :
           /\ found[j].column >= 1
           /\ found[j].code # ""
           /\ found[j].code = SubSeq(line, found[j].column, EndOf(found[j]))
           /\ MatchEnd(pattern, line, found[j].column - 1) = EndOf(found[j])
           /\ \A i \in (IF j = 1 THEN 0 ELSE EndOf(found[j - 1]))..(found[j].column - 2) :
                  MatchEnd(pattern, line, i) = -1
    /\ \A i \in (IF found = <<>> THEN 0 ELSE EndOf(found[Len(found)]))..Len(line) :
           MatchEnd(pattern, line, i) = -1

\* C19: for every line and every rule that is neither skipped for the file
\* nor rejected on the line, the issues of the rule on the line are its
\* non-overlapping matches from left to right, one issue each, with the
\* 1-based line, the 1-based column of the match start and the matched
\* text; the matches of a line are those a fresh matcher finds on it.
\* The scan of every line ends with such a list: no run stays for ever in
\* the match loop of one line.
C19_OneIssuePerMatch ==
    /\ pc # "hung"
    /\ Detected =>
        \A f \in 1..Len(filesToAnalyze) :
            \A n \in 1..Len(filesToAnalyze[f].lines), k \in 1..Len(detectionPatterns) :
                (/\ ~IsSkipped(detectionPatterns[k], AbsPath(filesToAnalyze[f].path))
                 /\ ~IsRejected(detectionPatterns[k], AbsPath(filesToAnalyze[f].path),
                                filesToAnalyze[f].lines, n - 1, quiet))
                => ListsTheMatches(IssuesAt(issues, detectionPatterns[k].id,
                                            AbsPath(filesToAnalyze[f].path), n),
                                   detectionPatterns[k], filesToAnalyze[f].lines[n])

-----------------------------------------------------------------------------
(* Consolidation as a function of the issue list: the runs of              *)
(* SpecConsolidate start where detect has returned an arbitrary list of    *)
(* at most MaxIssues issues, whose text fields may contain "|".            *)

MaxIssues == 3

\* type and file of the drawn issues
IssueOrigins == {<<"rule", "/repo/app/a|b.ts">>, <<"rule|/repo/app/a", "b.ts">>,
                 <<"rule", "b.ts">>}

IssueUniverse ==
    {Issue(o[1], o[2], l, 1, "x", "m", sev) :
        o \in IssueOrigins, l \in {3, 10}, sev \in {"high", "low"}}

InitConsolidate ==
    /\ pc = "detected"
    /\ configFiles = <<NoConfig, NoConfig, NoConfig>>
    /\ configReads = <<>>
    /\ fsFiles = <<>>
    /\ quiet = FALSE
    /\ strict \in BOOLEAN
    /\ detectionPatterns = BuiltinPatterns
    /\ customIgnorePaths = <<>>
    /\ filesToAnalyze = <<>>
    /\ fileIdx = 1
    /\ issues \in SeqsUpTo(IssueUniverse, MaxIssues)
    /\ score = <<calculateKarpeSlopScore(issues)>>
    /\ report = <<>>
    /\ exitCode = NoExit
    /\ launcher = NoLauncher

NextConsolidate == ExportResults \/ Exit

SpecConsolidate == InitConsolidate /\ [][NextConsolidate]_vars

\* the report has been written
Exported == pc \in {"exported", "exit"} /\ report # <<>>

\* the issues that agree with an entry on type, file, code, message, severity
IssuesOf(list, e) ==
    SelectSeq(list, LAMBDA x : /\ x.type = e.type /\ x.file = e.file /\ x.code = e.code
                               /\ x.message = e.message /\ x.severity = e.severity)

\* the sum of the per-severity occurrence counts
SeverityTotal(r) ==
    r.bySeverity["critical"] + r.bySeverity["high"] + r.bySeverity["medium"]
        + r.bySeverity["low"]

\* C8: consolidation preserves occurrences: the location lists of the
\* entries are non-empty, every issue's location is listed once, in the one
\* entry that has its key, the lengths of the lists sum to the number of
\* issues, and so do totalOccurrences and the per-severity counts.
C8_OccurrencesPreserved ==
    Exported =>
        LET r == report[1]
        IN  /\ \A k \in 1..Len(r.issues) : Len(r.issues[k].location) >= 1
            /\ \A k \in 1..Len(r.issues) :
                   LET mine == SelectSeq(issues,
                                         LAMBDA x : IssueKey(x) = IssueKey(r.issues[k]))
                   IN  /\ r.issues[k].location = [n \in 1..Len(mine) |-> Location(mine[n])]
                       /\ \A j \in 1..Len(r.issues) :
                              IssueKey(r.issues[j]) = IssueKey(r.issues[k]) => j = k
            /\ countOccurrences(r.issues) = Len(issues)
            /\ r.totalOccurrences = Len(issues)
            /\ SeverityTotal(r) = Len(issues)
            /\ \A sev \in ValidSeverities :
                   r.bySeverity[sev] = Len(SelectSeq(issues, LAMBDA x : x.severity = sev))

\* a report in which two issues were merged into one entry
C8_Witness ==
    /\ Exported
    /\ Len(issues) = MaxIssues
    /\ report[1].uniqueIssues = 2
    /\ report[1].totalOccurrences = MaxIssues

\* C9: two issues are merged into one entry exactly when they agree on
\* type, file, code, message and severity: every entry lists the locations
\* of the issues that have its five fields, and of no other issue.
C9_MergedIffSameFields ==
    Exported =>
        \A k \in 1..Len(report[1].issues) :
            LET e    == report[1].issues[k]
                same == IssuesOf(issues, e)
            IN  e.location = [n \in 1..Len(same) |-> Location(same[n])]

RECURSIVE ParseDecimal(_)
\* the number a string of decimal digits denotes
ParseDecimal(s) ==
    IF s = "" THEN 0
    ELSE 10 * ParseDecimal(SubSeq(s, 1, Len(s) - 1))
           + (CHOOSE d \in 0..9 : DecimalDigits(d) = SubSeq(s, Len(s), Len(s)))

\* the position of the ":" of a location
ColonOf(loc) == CHOOSE k \in 1..Len(loc) : SubSeq(loc, k, k) = ":"

\* one issue per listed location of every entry, in entry order
Expand(entries) ==
    Flatten([k \in 1..Len(entries) |->
        [n \in 1..Len(entries[k].location) |->
            LET loc == entries[k].location[n]
            IN  Issue(entries[k].type, entries[k].file,
                      ParseDecimal(SubSeq(loc, 1, ColonOf(loc) - 1)),
                      ParseDecimal(SubSeq(loc, ColonOf(loc) + 1, Len(loc))),
                      entries[k].code, entries[k].message, entries[k].severity)]])

\* C10: consolidating the list obtained by expanding every entry once per
\* listed location gives back the same entries, in the same order, with the
\* same location lists.
C10_ConsolidateIdempotent ==
    Exported => consolidateIssues(Expand(report[1].issues)) = report[1].issues

\* a report with two entries, one of them with two different locations
C10_Witness ==
    /\ Exported
    /\ Len(report[1].issues) = 2
    /\ \E k \in 1..2 :
           /\ Len(report[1].issues[k].location) = 2
           /\ report[1].issues[k].location[1] # report[1].issues[k].location[2]

-----------------------------------------------------------------------------
(* Properties of the order of the consolidated output, checked on          *)
(* SpecOrder.                                                              *)

\* the line and the column a location string "line:column" names
LocationLine(loc) == ParseDecimal(SubSeq(loc, 1, ColonOf(loc) - 1))
LocationColumn(loc) == ParseDecimal(SubSeq(loc, ColonOf(loc) + 1, Len(loc)))

\* the index in the issue list of the first issue that entry e stands for
FirstOccurrence(e) ==
    CHOOSE i \in 1..Len(issues) :
        /\ IssuesOf(<<issues[i]>>, e) # <<>>
        /\ \A j \in 1..(i - 1) : IssuesOf(<<issues[j]>>, e) = <<>>

\* C25: the entries of the report stand in the order of their first
\* occurrence in the issue list, and along the location list of every
\* entry the line numbers do not decrease and, where the line stays the
\* same, the column increases.
C25_ConsolidatedInDiscoveryOrder ==
    Exported =>
        /\ \A j \in 1..Len(report[1].issues), k \in 1..Len(report[1].issues) :
               j < k => FirstOccurrence(report[1].issues[j])
                            < FirstOccurrence(report[1].issues[k])
        /\ \A k \in 1..Len(report[1].issues) :
               \A n \in 1..(Len(report[1].issues[k].location) - 1) :
                   \/ LocationLine(report[1].issues[k].location[n])
                          < LocationLine(report[1].issues[k].location[n + 1])
                   \/ /\ LocationLine(report[1].issues[k].location[n])
                             = LocationLine(report[1].issues[k].location[n + 1])
                      /\ LocationColumn(report[1].issues[k].location[n])
                             < LocationColumn(report[1].issues[k].location[n + 1])

-----------------------------------------------------------------------------
(* The error-handling heuristic, checked on the runs of SpecFetch: one     *)
(* file holding one function, from its first line to its last, with one    *)
(* network call in its body.                                               *)

MaxBefore == 3      \* filler lines between the start of the body and the call
MaxAfter  == 20     \* filler lines between the call and the end of the body

Filler(n) == [k \in 1..n |-> FetchText.filler]

\* the function: handler is "none", "try" (the body is a try block with its
\* catch) or "chain" (a .catch attached at the end of the body); callback
\* wraps the call in a callback passed to forEach
FetchFunction(handler, callback, before, after) ==
    <<FetchText.header>>
    \o (IF handler = "try" THEN <<FetchText.try>> ELSE <<>>)
    \o Filler(before)
    \o (IF callback THEN <<FetchText.callback>> ELSE <<>>)
    \o <<FetchText.call>>
    \o (IF callback THEN <<FetchText.callbackClose>> ELSE <<>>)
    \o Filler(after)
    \o (IF handler = "chain" THEN <<FetchText.chainCatch>> ELSE <<>>)
    \o (IF handler = "try" THEN <<FetchText.catch>> ELSE <<>>)
    \o <<FetchText.close>>

InitFetch ==
    \E handler \in {"none", "try", "chain"}, callback \in BOOLEAN,
       before \in 0..MaxBefore, after \in 0..MaxAfter :
        Start(<<NoConfig, NoConfig, NoConfig>>,
              <<SourceFile("app/load.ts", FetchFunction(handler, callback, before, after))>>,
              FALSE, FALSE)

SpecFetch == InitFetch /\ [][Next]_vars

\* the 0-based index of the line of the network call
CallIndex(lines) == CHOOSE i \in 0..(Len(lines) - 1) : lines[i + 1] = FetchText.call

\* the function body contains a try opener or a .catch handler
BodyHasHandler(lines) ==
    \E n \in 1..Len(lines) : Includes(lines[n], "try {") \/ Includes(lines[n], ".catch(")

\* a callback opens between the start of the function and the call
HasNestedCallback(lines) ==
    \E i \in 1..CallIndex(lines) : Includes(lines[i + 1], "=>")

\* the missing_error_handling issues recorded for the call of file f
MissingHandling(f) ==
    IssuesAt(issues, "missing_error_handling", AbsPath(filesToAnalyze[f].path),
             CallIndex(filesToAnalyze[f].lines) + 1)

====
